---- MODULE Spec2Model ----
(***************************************************************************)
(* Verification model of the code-intelligence retrieval pipeline of the   *)
(* Python backend: fuzzy path resolution (AutoselectService._massage),     *)
(* the selection orchestrator (AutoselectService.autoselect_paths), the    *)
(* heuristic ranker (rank_candidates) and the per-project embedding index  *)
(* (EmbeddingsService).                                                    *)
(*                                                                         *)
(* Python strings are modelled as sequences of one-character strings, so   *)
(* that stripping, splitting, lower-casing and path normalisation are      *)
(* computed character by character, the way the code computes them.        *)
(***************************************************************************)
EXTENDS Integers, Sequences, FiniteSets, TLC

(***************************************************************************)
(* Bounds of the model                                                     *)
(***************************************************************************)
MaxPaths == 2
MaxItems == 2

(***************************************************************************)
(* Python str helpers                                                      *)
(***************************************************************************)
UpperChars == <<"A","B","C","D","E","F","G","H","I","J","K","L","M",
                "N","O","P","Q","R","S","T","U","V","W","X","Y","Z">>
LowerChars == <<"a","b","c","d","e","f","g","h","i","j","k","l","m",
                "n","o","p","q","r","s","t","u","v","w","x","y","z">>

UpperSet == {UpperChars[k] : k \in 1..26}
LowerOf == [c \in UpperSet |-> LowerChars[CHOOSE k \in 1..26 : UpperChars[k] = c]]

LowerChar(c) == IF c \in UpperSet THEN LowerOf[c] ELSE c

\* str.lower()
lower(s) == [i \in 1..Len(s) |-> LowerChar(s[i])]

\* str.lstrip(chars)
RECURSIVE lstrip(_, _)
lstrip(s, chars) ==
    IF s # <<>> /\ s[1] \in chars THEN lstrip(Tail(s), chars) ELSE s

\* str.rstrip(chars)
RECURSIVE rstrip(_, _)
rstrip(s, chars) ==
    IF s # <<>> /\ s[Len(s)] \in chars
    THEN rstrip(SubSeq(s, 1, Len(s) - 1), chars)
    ELSE s

\* str.strip(chars)
strip(s, chars) == rstrip(lstrip(s, chars), chars)

\* the characters str.strip() removes when called without argument
Whitespace == {" ", "\t", "\n", "\r"}

\* str.split(sep) for a one-character separator
RECURSIVE split(_, _)
split(s, sep) ==
    IF \E i \in 1..Len(s) : s[i] = sep
    THEN LET i == CHOOSE j \in 1..Len(s) :
                      s[j] = sep /\ \A k \in 1..(j - 1) : s[k] # sep
         IN  <<SubSeq(s, 1, i - 1)>> \o split(SubSeq(s, i + 1, Len(s)), sep)
    ELSE <<s>>

\* sep.join(parts)
RECURSIVE join(_, _)
join(parts, sep) ==
    IF parts = <<>> THEN <<>>
    ELSE IF Len(parts) = 1 THEN parts[1]
    ELSE parts[1] \o <<sep>> \o join(Tail(parts), sep)

\* membership of a value in a Python list
InList(x, l) == \E i \in 1..Len(l) : l[i] = x

(***************************************************************************)
(* Python dict helpers: a dict is the sequence of its (key, value) items   *)
(* in insertion order; assigning to an existing key keeps its position.    *)
(***************************************************************************)
DictHas(d, k) == \E i \in 1..Len(d) : d[i].k = k

DictGet(d, k, default) ==
    IF DictHas(d, k) THEN d[CHOOSE i \in 1..Len(d) : d[i].k = k].v ELSE default

DictPut(d, k, v) ==
    IF DictHas(d, k)
    THEN [i \in 1..Len(d) |-> IF d[i].k = k THEN [k |-> k, v |-> v] ELSE d[i]]
    ELSE Append(d, [k |-> k, v |-> v])

\* d.setdefault(k, []).append(v)
DictAppend(d, k, v) == DictPut(d, k, Append(DictGet(d, k, <<>>), v))

(***************************************************************************)
(* pathlib.PurePosixPath                                                   *)
(***************************************************************************)
\* the parts of a relative PurePosixPath: empty and "." components vanish
PosixParts(s) ==
    SelectSeq(split(s, "/"), LAMBDA seg : seg # <<>> /\ seg # <<".">>)

\* PurePosixPath(s).as_posix() for a path without a leading slash
as_posix(s) ==
    IF PosixParts(s) = <<>> THEN <<".">> ELSE join(PosixParts(s), "/")

\* PurePosixPath(s).name
PathName(s) ==
    IF PosixParts(s) = <<>> THEN <<>> ELSE PosixParts(s)[Len(PosixParts(s))]

\* `pp.suffix or "." in pp.name`: a non-empty suffix implies a dot in the name
HasDotName(s) == InList(".", PathName(s))

(***************************************************************************)
(* AutoselectService._norm                                                 *)
(***************************************************************************)
_norm(path) == as_posix(lstrip(path, {".", "/", "\\"}))

(***************************************************************************)
(* AutoselectService._massage                                              *)
(***************************************************************************)
\* an element of the model's list that is not a str (a number, null, ...)
NonStr == <<"<non-str>">>

allow_norm(allowed) == [i \in 1..Len(allowed) |-> _norm(allowed[i])]

\* {p.lower(): orig for p, orig in zip(allow_norm, allowed)}
RECURSIVE allow_exact_upto(_, _)
allow_exact_upto(allowed, n) ==
    IF n = 0 THEN <<>>
    ELSE DictPut(allow_exact_upto(allowed, n - 1),
                 lower(allow_norm(allowed)[n]), allowed[n])

allow_exact(allowed) == allow_exact_upto(allowed, Len(allowed))

RECURSIVE basename_map_upto(_, _)
basename_map_upto(allowed, n) ==
    IF n = 0 THEN <<>>
    ELSE LET prev == basename_map_upto(allowed, n - 1)
             norm == allow_norm(allowed)[n]
         IN  IF HasDotName(norm)
             THEN DictAppend(prev, lower(PathName(norm)), allowed[n])
             ELSE prev

basename_map(allowed) == basename_map_upto(allowed, Len(allowed))

\* "/".join(segs[-i:]).lower()
SuffixKey(segs, i) ==
    lower(join(SubSeq(segs, Len(segs) - i + 1, Len(segs)), "/"))

\* for i in range(1, min(4, len(segs) + 1)): suffix_map.setdefault(..).append(orig)
RECURSIVE suffix_add(_, _, _, _)
suffix_add(d, segs, orig, i) ==
    IF i >= (IF 4 < Len(segs) + 1 THEN 4 ELSE Len(segs) + 1) THEN d
    ELSE suffix_add(DictAppend(d, SuffixKey(segs, i), orig), segs, orig, i + 1)

RECURSIVE suffix_map_upto(_, _)
suffix_map_upto(allowed, n) ==
    IF n = 0 THEN <<>>
    ELSE suffix_add(suffix_map_upto(allowed, n - 1),
                    split(allow_norm(allowed)[n], "/"), allowed[n], 1)

suffix_map(allowed) == suffix_map_upto(allowed, Len(allowed))

\* cand_norm = self._norm(raw.strip().rstrip(",;")).lower()
cand_norm(raw) == lower(_norm(rstrip(strip(raw, Whitespace), {",", ";"})))

\* `resolved` is None
None == <<"<None>">>

\* stage 1: exact match of the normalised, lower-cased candidate
ResolveExact(cn, exact) == DictGet(exact, cn, None)

\* stage 2: unique match by basename
ResolveBasename(cn, bmap) ==
    IF HasDotName(cn)
    THEN LET matches == DictGet(bmap, lower(PathName(cn)), <<>>)
         IN  IF Len(matches) = 1 THEN matches[1] ELSE None
    ELSE None

\* stage 3: unique match by the last one to three segments
ResolveSuffix(cn, smap) ==
    LET matches == DictGet(smap, cn, <<>>)
    IN  IF Len(matches) = 1 THEN matches[1] ELSE None

\* the loop body keeping the model's own string when no stage resolves it
ResolveWith_passthrough(raw, exact, bmap, smap) ==
    LET cn == cand_norm(raw)
        r1 == ResolveExact(cn, exact)
        r2 == IF r1 = None THEN ResolveBasename(cn, bmap) ELSE r1
        r3 == IF r2 = None THEN ResolveSuffix(cn, smap) ELSE r2
    IN  IF r3 = None THEN raw ELSE r3

\* the loop body with the basename stage assigning `resolved` unconditionally
ResolveWith_overwrite(raw, exact, bmap, smap) ==
    LET cn == cand_norm(raw)
        r2 == ResolveBasename(cn, bmap)
        r3 == IF r2 = None THEN ResolveSuffix(cn, smap) ELSE r2
    IN  r3

\* the body of the loop over items, up to the last assignment of `resolved`
ResolveWith(raw, exact, bmap, smap) ==
    LET cn == cand_norm(raw)
        r1 == ResolveExact(cn, exact)
        r2 == IF r1 = None THEN ResolveBasename(cn, bmap) ELSE r1
        r3 == IF r2 = None THEN ResolveSuffix(cn, smap) ELSE r2
    IN  r3

\* the acceptance test without the `seen` check
Accept_noseen(resolved, chosen) == resolved # None /\ resolved # <<>>

\* `if resolved and resolved not in seen`: None and "" are falsy
Accept(resolved, chosen) ==
    resolved # None /\ resolved # <<>> /\ ~InList(resolved, chosen)

RECURSIVE massage_loop(_, _, _, _, _)
massage_loop(items, exact, bmap, smap, chosen) ==
    IF items = <<>> THEN chosen
    ELSE LET raw == Head(items)
         IN  IF raw = NonStr
             THEN massage_loop(Tail(items), exact, bmap, smap, chosen)
             ELSE LET resolved == ResolveWith(raw, exact, bmap, smap)
                  IN  massage_loop(Tail(items), exact, bmap, smap,
                                   IF Accept(resolved, chosen)
                                   THEN Append(chosen, resolved)
                                   ELSE chosen)

_massage(items, allowed) ==
    LET exact == allow_exact(allowed)
        bmap  == basename_map(allowed)
        smap  == suffix_map(allowed)
    IN  massage_loop(items, exact, bmap, smap, <<>>)

\* what one candidate resolves to against `allowed`
Resolve(raw, allowed) ==
    ResolveWith(raw, allow_exact(allowed), basename_map(allowed), suffix_map(allowed))

(***************************************************************************)
(* autoselect_heuristics: _tokens, _lang_hint, rank_candidates             *)
(***************************************************************************)
LowerSet == {LowerChars[k] : k \in 1..26}

\* the character class [A-Za-z_] of _WORD_RE
IsWordChar(c) == c \in UpperSet \cup LowerSet \cup {"_"}

\* the maximal runs of word characters of s, in order; `cur` is the run being read
RECURSIVE word_runs(_, _)
word_runs(s, cur) ==
    IF s = <<>> THEN (IF cur = <<>> THEN <<>> ELSE <<cur>>)
    ELSE IF IsWordChar(Head(s)) THEN word_runs(Tail(s), Append(cur, Head(s)))
    ELSE (IF cur = <<>> THEN <<>> ELSE <<cur>>) \o word_runs(Tail(s), <<>>)

\* {m.group(0).lower() for m in re.finditer(r"[A-Za-z_]{3,}", text)}
_tokens(text) ==
    LET runs == word_runs(text, <<>>)
    IN  {lower(runs[i]) : i \in {j \in 1..Len(runs) : Len(runs[j]) >= 3}}

\* pathlib's suffix of a file name: from the last dot, unless the dot is the
\* first or the last character
NameSuffix(name) ==
    IF \E i \in 1..Len(name) : name[i] = "."
    THEN LET i == CHOOSE j \in 1..Len(name) :
                      name[j] = "." /\ \A k \in (j + 1)..Len(name) : name[k] # "."
         IN  IF 1 < i /\ i < Len(name) THEN SubSeq(name, i, Len(name)) ELSE <<>>
    ELSE <<>>

\* pathlib.Path(rel_path).suffix.lower()
_lang_hint(rel_path) == lower(NameSuffix(PathName(rel_path)))

\* `sub in s` for two strings
Contains(sub, s) ==
    \E i \in 0..(Len(s) - Len(sub)) : SubSeq(s, i + 1, i + Len(sub)) = sub

\* the grave accent, which cannot be written inside a TLA+ string
Backtick == "<grave>"

\* the characters that occur in the model, in code-point order
Ascii == <<"\t", "\n", "\r", " ", "\"", "'", "*", ",", "-", ".", "/", ":", ";"
          >> \o UpperChars \o <<"[", "\\", "]", "_", Backtick>> \o LowerChars
          \o <<"{", "}">>

CharCode == [c \in {Ascii[i] : i \in 1..Len(Ascii)} |->
                CHOOSE i \in 1..Len(Ascii) : Ascii[i] = c]

\* a < b for two Python strings
RECURSIVE StrLess(_, _)
StrLess(a, b) ==
    IF b = <<>> THEN FALSE
    ELSE IF a = <<>> THEN TRUE
    ELSE IF a[1] = b[1] THEN StrLess(Tail(a), Tail(b))
    ELSE CharCode[a[1]] < CharCode[b[1]]

\* reversed(emb_results) enumerated into a dict: the position of `rel` counted
\* from the end of the hit list, the later of two equal hits winning
HitPositions(rel, emb_results) == {i \in 1..Len(emb_results) : emb_results[i] = rel}

emb_rank(rel, emb_results) ==
    LET first == CHOOSE i \in HitPositions(rel, emb_results) :
                     \A j \in HitPositions(rel, emb_results) : i <= j
    IN  Len(emb_results) - first

\* the score of one candidate, multiplied by max(1, len(emb_results)) so that
\* (emb_rank / max_rank) * 100 stays an integer
ScoreScale(emb_results) == IF emb_results = <<>> THEN 1 ELSE Len(emb_results)

score_of(rel, instr_toks, summary, emb_results, lang_bias) ==
    LET path_part == 2 * Cardinality(instr_toks \cap _tokens(rel))
        sum_part  == 3 * Cardinality(instr_toks \cap _tokens(summary))
        lang_part == IF lang_bias # {} /\ _lang_hint(rel) \in lang_bias THEN 4 ELSE 0
        boost     == 10 * Cardinality({tok \in instr_toks :
                                          Len(tok) > 4 /\ Contains(tok, lower(rel))})
        semantic  == IF HitPositions(rel, emb_results) # {}
                     THEN 100 * emb_rank(rel, emb_results) ELSE 0
    IN  ScoreScale(emb_results) * (path_part + sum_part + lang_part + boost) + semantic

\* a sort key without the score
RankedBefore_pathonly(a, b) == StrLess(a.rel, b.rel)

\* the sort key (-score, rel): does entry a come strictly before entry b
RankedBefore(a, b) ==
    \/ a.score > b.score
    \/ a.score = b.score /\ StrLess(a.rel, b.rel)

\* list.sort(key=...): a stable insertion of x into the sorted list l
RECURSIVE insert_ranked(_, _)
insert_ranked(x, l) ==
    IF l = <<>> THEN <<x>>
    ELSE IF RankedBefore(x, Head(l)) THEN <<x>> \o l
    ELSE <<Head(l)>> \o insert_ranked(x, Tail(l))

RECURSIVE sort_ranked(_)
sort_ranked(l) ==
    IF l = <<>> THEN <<>>
    ELSE insert_ranked(l[Len(l)], sort_ranked(SubSeq(l, 1, Len(l) - 1)))

\* a slice that does not cut
Prefix_all(l, n) == l

\* l[:n]
Prefix(l, n) == SubSeq(l, 1, IF n < Len(l) THEN n ELSE Len(l))

\* a ranker without the zero-score fallback
rank_candidates_nofallback(tree_paths, instructions, summaries, emb_results, lang_bias, keep_top) ==
    LET instr_toks == _tokens(instructions)
        ranked == sort_ranked([i \in 1..Len(tree_paths) |->
                      [score |-> score_of(tree_paths[i], instr_toks,
                                          summaries[tree_paths[i]],
                                          emb_results, lang_bias),
                       rel |-> tree_paths[i]]])
    IN  [i \in 1..Len(Prefix(ranked, keep_top)) |-> ranked[i].rel]

\* rank_candidates; `summaries` maps a relative path to what file_summary_fn
\* returns for it, `emb_results` is what embedding_svc.top_k returned
rank_candidates(tree_paths, instructions, summaries, emb_results, lang_bias, keep_top) ==
    LET instr_toks == _tokens(instructions)
        ranked == sort_ranked([i \in 1..Len(tree_paths) |->
                      [score |-> score_of(tree_paths[i], instr_toks,
                                          summaries[tree_paths[i]],
                                          emb_results, lang_bias),
                       rel |-> tree_paths[i]]])
        top == [i \in 1..Len(Prefix(ranked, keep_top)) |-> ranked[i].rel]
    IN  IF ranked = <<>> THEN <<>>
        ELSE IF ranked[1].score > 0 THEN top
        ELSE Prefix(tree_paths, keep_top)

(***************************************************************************)
(* Inputs: project-relative paths and model-returned strings               *)
(***************************************************************************)
P_app     == <<"a", "p", "p", ".", "p", "y">>
P_APP     == <<"A", "P", "P", ".", "p", "y">>
P_env     == <<"e", "n", "v">>
P_lib_api == <<"l", "i", "b", "/", "a", "p", "i", ".", "p", "y">>
P_deep    == <<"x", "/", "s", "r", "c", "/", "l", "i", "b", "/", "a", "p", "i", ".", "p", "y">>

PathPool == {P_app, P_APP, P_env, P_lib_api, P_deep}

C_dotenv   == <<".", "e", "n", "v">>
C_dotslash == <<".", "/", "l", "i", "b", "/", "a", "p", "i", ".", "p", "y">>
C_backsl   == <<"l", "i", "b", "\\", "a", "p", "i", ".", "p", "y">>
C_upper    == <<"L", "I", "B", "/", "A", "P", "I", ".", "P", "Y">>
C_suffix   == <<"s", "r", "c", "/", "l", "i", "b", "/", "a", "p", "i", ".", "p", "y">>
C_new      == <<"n", "e", "w", ".", "p", "y">>

CandPool == {P_app, C_dotenv, C_dotslash, C_backsl, C_upper, C_suffix, NonStr}

\* all sequences over S of length lo..hi
SeqsOf(S, lo, hi) == UNION {[1..n -> S] : n \in lo..hi}

\* the project trees, instructions and model strings of the selection requests
TreePool == {P_app, P_lib_api, P_env}

I_fix  == <<"f", "i", "x", " ", "a", "p", "i">>
I_load == <<"l", "o", "a", "d", " ", "e", "n", "v">>
InstrPool == {I_fix, I_load}

C_quoted == <<" ", "a", "p", "i", ".", "p", "y", ",">>
ReplyPool == {P_app, C_upper, C_new, C_quoted}

\* the project on disk, as CodemapService.extract_codemap and
\* FileStorageRepository.read_text report it for each path
W_Api       == <<"A", "p", "i">>
W_fix_route == <<"f", "i", "x", "_", "r", "o", "u", "t", "e">>
W_main      == <<"m", "a", "i", "n">>
T_env       == <<"K", "E", "Y", " ", "v", "a", "l", "u", "e">>

NoInfo == [error |-> TRUE, classes |-> <<>>, functions |-> <<>>,
           references |-> <<>>, text |-> <<>>]

ProjectFiles ==
    [p \in PathPool |->
        IF p = P_lib_api
        THEN [error |-> FALSE, classes |-> <<W_Api>>, functions |-> <<W_fix_route>>,
              references |-> <<>>, text |-> <<>>]
        ELSE IF p = P_app
        THEN [error |-> FALSE, classes |-> <<>>, functions |-> <<W_main>>,
              references |-> <<>>, text |-> <<>>]
        ELSE IF p = P_env
        THEN [error |-> TRUE, classes |-> <<>>, functions |-> <<>>,
              references |-> <<>>, text |-> T_env]
        ELSE NoInfo]

(***************************************************************************)
(* AutoselectService._file_summary and the summaries of the cold build     *)
(***************************************************************************)
L_Classes   == <<"C", "l", "a", "s", "s", "e", "s", ":", " ">>
L_Functions == <<"F", "u", "n", "c", "t", "i", "o", "n", "s", ":", " ">>
L_Refs      == <<"R", "e", "f", "s", ":", " ">>
L_classes   == <<"c", "l", "a", "s", "s", "e", "s", ":", " ">>
L_functions == <<"f", "u", "n", "c", "t", "i", "o", "n", "s", ":", " ">>
L_refs      == <<"r", "e", "f", "s", ":", " ">>

\* sep.join(parts) for a separator of several characters
RECURSIVE join_str(_, _)
join_str(parts, sep) ==
    IF parts = <<>> THEN <<>>
    ELSE IF Len(parts) = 1 THEN parts[1]
    ELSE parts[1] \o sep \o join_str(Tail(parts), sep)

\* the one-line summary of structured codemap data, or the cheap summary of
\* the file's text (here: its first lines joined) when there is none
_file_summary(rel) ==
    LET data == ProjectFiles[rel]
        parts ==
            (IF data.classes # <<>>
             THEN <<L_Classes \o join_str(Prefix(data.classes, 10), <<",", " ">>)>>
             ELSE <<>>)
            \o (IF data.functions # <<>>
                THEN <<L_Functions \o join_str(Prefix(data.functions, 15), <<",", " ">>)>>
                ELSE <<>>)
            \o (IF data.references # <<>>
                THEN <<L_Refs \o join_str(Prefix(data.references, 20), <<",", " ">>)>>
                ELSE <<>>)
    IN  IF ~data.error /\ parts # <<>>
        THEN join_str(parts, <<";", " ">>)
        ELSE data.text

\* summaries[rel] of the cold index build
EnrichedSummary(rel) ==
    LET info == ProjectFiles[rel]
        parts ==
            <<rel>>
            \o (IF info.classes # <<>>
                THEN <<L_classes \o join_str(info.classes, <<" ">>)>> ELSE <<>>)
            \o (IF info.functions # <<>>
                THEN <<L_functions \o join_str(info.functions, <<" ">>)>> ELSE <<>>)
            \o (IF info.references # <<>>
                THEN <<L_refs \o join_str(Prefix(info.references, 20), <<" ">>)>>
                ELSE <<>>)
            \o <<_file_summary(rel)>>
    IN  join_str(parts, <<" ">>)

\* the dict `summaries` built by the loop over req.treePaths
RECURSIVE cold_summaries(_, _)
cold_summaries(tree_paths, n) ==
    IF n = 0 THEN <<>>
    ELSE DictPut(cold_summaries(tree_paths, n - 1),
                 tree_paths[n], EnrichedSummary(tree_paths[n]))

(***************************************************************************)
(* EmbeddingsService: the store is the path list and the vectors of the    *)
(* faiss index; a vector is represented by the text it embeds              *)
(***************************************************************************)
embed(text) == text

\* index(path_to_summary) run to completion: [paths, vecs] afterwards
index(store, path_to_summary) ==
    IF path_to_summary = <<>> THEN store
    ELSE [paths |-> [i \in 1..Len(path_to_summary) |-> path_to_summary[i].k],
          vecs  |-> [i \in 1..Len(path_to_summary) |-> embed(path_to_summary[i].v)]]

\* the injective sequences of length n over the set S
RECURSIVE Arrangements(_, _)
Arrangements(S, n) ==
    IF n = 0 THEN {<<>>}
    ELSE UNION { {Append(a, x) : x \in S \ {a[i] : i \in 1..Len(a)} } :
                    a \in Arrangements(S, n - 1)}

Min(a, b) == IF a < b THEN a ELSE b

\* the lists top_k(query, k) can return: the encoder is opaque, so any
\* similarity order of any of the stored vectors that pass the 0.1 floor
top_k(store, k) ==
    IF store.paths = <<>> THEN {<<>>}
    ELSE LET n == Min(Min(k, Len(store.paths)), Len(store.vecs))
         IN  {[i \in 1..Len(a) |-> store.paths[a[i]]] :
                 a \in UNION {Arrangements(1..Len(store.vecs), m) : m \in 0..n}}

(***************************************************************************)
(* service_exceptions._translate                                           *)
(***************************************************************************)
\* the classes an exception raised in autoselect_paths is an instance of
ExcClasses ==
    [e \in {"UpstreamError", "TimeoutException", "ConnectError", "AttributeError",
            "JSONDecodeError", "KeyError", "TypeError", "ValueError",
            "UnicodeDecodeError"} |->
        CASE e = "UpstreamError"    -> {"UpstreamError", "RuntimeError"}
          [] e = "TimeoutException" -> {"TimeoutException", "HTTPError"}
          [] e = "ConnectError"     -> {"ConnectError", "HTTPError"}
          [] e = "JSONDecodeError"  -> {"JSONDecodeError", "ValueError"}
          [] e = "UnicodeDecodeError" -> {"UnicodeDecodeError", "ValueError"}
          [] OTHER                  -> {e}]

_translate(exc) ==
    IF "ServiceError" \in ExcClasses[exc] THEN exc
    ELSE IF "FileNotFoundError" \in ExcClasses[exc] THEN "ResourceNotFoundError"
    ELSE IF "PermissionError" \in ExcClasses[exc] THEN "PermissionDeniedError"
    ELSE IF "KeyError" \in ExcClasses[exc] THEN "ConfigurationError"
    ELSE IF "ValueError" \in ExcClasses[exc] THEN "InvalidInputError"
    ELSE IF "HTTPError" \in ExcClasses[exc] THEN "UpstreamServiceError"
    ELSE "UpstreamServiceError"

(***************************************************************************)
(* AutoselectService._call_openrouter: the upstream and its replies        *)
(***************************************************************************)
MaxFail == 1

\* how an attempt of the HTTP call can fail
FailKinds == {"timeout", "network", "http5xx", "http4xx"}
TransientKinds == {"timeout", "network", "http5xx"}

\* the exception one failed POST raises inside _call_openrouter
PostException(kind) ==
    CASE kind = "timeout" -> "TimeoutException"
      [] kind = "network" -> "ConnectError"
      [] OTHER            -> "UpstreamError"

\* str(exc) of the exceptions autoselect_paths lets escape
M_Http        == "OpenRouter HTTP <status>"
M_Transport   == "<httpx transport error>"
M_InvalidJson == "Upstream returned invalid JSON"
M_PayloadType == "Unexpected upstream payload type"
M_NoAttribute == "<object has no attribute>"

\* the message of the exception one failed POST raises
PostMessage(kind) ==
    IF kind \in {"timeout", "network"} THEN M_Transport ELSE M_Http

\* a confidence is kept in hundredths
ConfPool == {60, 95, 120}
Q_which == <<"w", "h", "i", "c", "h", " ", "a", "p", "i", "?">>
AskPool == {<<>>, <<Q_which>>}

\* the text of a reply that wraps truncated JSON in a Markdown fence
F_open   == <<Backtick, Backtick, Backtick, "j", "s", "o", "n">>
F_head   == <<"{", "\"", "s", "e", "l", "e", "c", "t", "e", "d", "\"", ":", " ", "[">>
F_app    == <<" ", " ", "\"", "a", "p", "p", ".", "p", "y", "\"", ",">>
F_api    == <<" ", " ", "\"", "L", "I", "B", "/", "A", "P", "I", ".", "P", "Y", "\"">>
F_close  == <<Backtick, Backtick, Backtick>>
FencedTexts == {<<F_open, F_head, F_app, F_close>>,
                <<F_open, F_head, F_api, F_close>>,
                <<F_open, F_head, F_close>>}

NoReply == [kind |-> "none", selected |-> <<>>, hasConf |-> FALSE, conf |-> 0,
            hasAsk |-> FALSE, ask |-> <<>>, text |-> <<>>]

\* choices[0].message.content of a 200 response: a JSON object (as a string or
\* already a dict), some other JSON value, fenced or plain text that is not
\* JSON, or a value that is neither str nor dict
ObjectReplies ==
    {[NoReply EXCEPT !.kind = k, !.selected = s, !.hasConf = hc, !.conf = c,
                     !.hasAsk = ha, !.ask = a] :
        k \in {"json_object"}, s \in SeqsOf(ReplyPool, 0, MaxItems),
        hc \in {TRUE}, c \in ConfPool, ha \in {TRUE}, a \in AskPool}
    \cup {[NoReply EXCEPT !.kind = k, !.selected = s] :
            k \in {"json_object", "dict"}, s \in SeqsOf(ReplyPool, 0, 1)}

Replies ==
    ObjectReplies
    \cup {[NoReply EXCEPT !.kind = "fenced", !.text = t] : t \in FencedTexts}
    \cup {[NoReply EXCEPT !.kind = k] : k \in {"json_other", "garbage", "other_type"}}

\* json.loads(raw) succeeds
JsonLoads(reply) == reply.kind \in {"json_object", "json_other"}

\* a decoder that lets undecodable text through as an empty object
ParseOutcome_lenient(reply) ==
    IF reply.kind = "other_type" THEN "raise" ELSE "return"

\* what _call_openrouter does with the content of a 200 response:
\* "return" the parsed value or "raise"
ParseOutcome(reply) ==
    IF reply.kind = "dict" THEN "return"
    ELSE IF reply.kind \in {"json_object", "json_other", "fenced", "garbage"}
    THEN (IF JsonLoads(reply) THEN "return" ELSE "raise")
    ELSE "raise"

\* the message of the UpstreamError raised for the content of a 200 response
ParseMessage(reply) ==
    IF reply.kind \in {"json_object", "json_other", "fenced", "garbage"}
    THEN M_InvalidJson
    ELSE M_PayloadType

(***************************************************************************)
(* The helpers for fenced and line-oriented replies                        *)
(***************************************************************************)
\* _strip_fmt
_strip_fmt(line) ==
    LET l1 == rstrip(lstrip(strip(line, Whitespace), {"-", "*", Backtick}), {Backtick})
    IN  strip(rstrip(l1, {",", ";", "[", "]", " "}), {"\"", "'"})

\* _legacy_parse on the lines of raw
_legacy_parse(lines, allowed) ==
    LET kept == SelectSeq(lines, LAMBDA l : strip(l, Whitespace) # <<>>)
    IN  _massage([i \in 1..Len(kept) |-> _strip_fmt(kept[i])], allowed)

(***************************************************************************)
(* AutoselectService.autoselect_paths                                      *)
(***************************************************************************)
\* the longest treePaths of a selection request
MaxTree == 2

\* keep_top of the call to rank_candidates (120 in the code), kept below
\* MaxTree so that the shortlist is cut
KeepTop == 1

\* min(500, len(tree_paths))
TopKCap == 500

\* the default language preference
DefaultLangs == { <<".", "p", "y">>, <<".", "c", "p", "p">>, <<".", "c", "c">>, <<".", "h", "p", "p">>, <<".", "t", "s">>, <<".", "t", "s", "x">>, <<".", "j", "s">>, <<".", "j", "s", "x">> }

\* {f".{l.lower()}" for l in req.languages or []} or the default set
lang_pref(languages) ==
    IF languages = <<>> THEN DefaultLangs
    ELSE {<<".">> \o lower(languages[i]) : i \in 1..Len(languages)}

\* conf < 0.95 and clarifications is None
NeedsClarification_confonly(conf, clar) == conf < 95

NeedsClarification(conf, clar) == conf < 95 /\ clar = "none"

NoResult == [status |-> "none", selected |-> <<>>, hasAsk |-> FALSE,
             ask |-> <<>>, conf |-> 0, error |-> "none", msg |-> "none"]

(***************************************************************************)
(* State                                                                   *)
(***************************************************************************)
VARIABLES
    mPc,        \* fuzzy resolution run: "call" before, "done" after _massage
    mAllowed,   \* the `allowed` argument of _massage
    mItems,     \* the `items` argument of _massage
    mChosen,    \* the list _massage returned
    pc,         \* where the selection request stands in autoselect_paths
    round,      \* 1: the caller's first call, 2: its call with clarifications
    rTree,      \* req.treePaths
    rInstr,     \* req.instructions
    rLang,      \* req.languages: "absent" (no such attribute) or a list
    rClar,      \* the clarifications argument: "none" or "given"
    store,      \* the project's EmbeddingsService: _paths and the vectors
    shortlist,  \* the ranker's shortlist
    upFail,     \* how many attempts of the upstream call fail before it recovers
    upKind,     \* the way those attempts fail
    calls,      \* HTTP requests made for the current call
    reply,      \* choices[0].message.content of the 200 response
    result,     \* what autoselect_paths returned or raised
    lock,       \* the owner of the module-wide _LOCK, or "free"
    tpc,        \* per thread: the statement of index/update/top_k it is at
    tloc,       \* per thread: the arguments and locals of that call
    ep,         \* one HTTP request to POST /api/autoselect and its response
    rk,         \* one call of rank_candidates: its arguments and its result
    instances,  \* EmbeddingsService._instances: absolute root -> instance
    last,       \* the last operation of the single caller of the registry
    cm,         \* one call of CodemapService.extract_codemap: files and result
    svc,        \* the process-wide AutoselectService: summary cache, debug map
    cr          \* overlapping selection requests for one project root

massVars == <<mPc, mAllowed, mItems, mChosen>>
reqVars == <<rTree, rInstr, rLang>>
pipeVars == <<pc, round, rTree, rInstr, rLang, rClar, shortlist,
              upFail, upKind, calls, reply, result>>
embVars == <<lock, tpc, tloc>>
sideVars == <<ep, rk, instances, last>>
auxVars == <<ep, rk, instances, last, cm, svc, cr>>
vars == <<mPc, mAllowed, mItems, mChosen, pc, round, rTree, rInstr, rLang, rClar,
          store, shortlist, upFail, upKind, calls, reply, result, lock, tpc, tloc,
          ep, rk, instances, last, cm, svc, cr>>

EmptyStore == [paths |-> <<>>, vecs |-> <<>>]

\* the variables of a specification that is not running
MassageOff ==
    /\ mPc = "off" /\ mAllowed = <<>> /\ mItems = <<>> /\ mChosen = <<>>

PipelineOff ==
    /\ pc = "off" /\ round = 0 /\ rTree = <<>> /\ rInstr = <<>> /\ rLang = <<>>
    /\ rClar = "none" /\ shortlist = <<>>
    /\ upFail = 0 /\ upKind = "none" /\ calls = 0
    /\ reply = NoReply /\ result = NoResult

\* the threads that use one EmbeddingsService
Threads == {"t1", "t2"}

NoLocals == [arg |-> <<>>, k |-> 0, i |-> 0, vecs |-> <<>>, found |-> <<>>,
             hits |-> <<>>, ret |-> "none"]

ThreadsOff ==
    /\ lock = "free"
    /\ tpc = [t \in Threads |-> "off"]
    /\ tloc = [t \in Threads |-> NoLocals]

EndpointOff == ep = [pc |-> "off"]

RankerOff == rk = [pc |-> "off"]

RegistryOff == instances = <<>> /\ last = [op |-> "off"]

CodemapOff == cm = [pc |-> "off"]

SummaryOff == svc = [pc |-> "off"]

RequestsOff == cr = [pc |-> "off"]

ExtOff == CodemapOff /\ SummaryOff /\ RequestsOff

(***************************************************************************)
(* Fuzzy resolution on its own: SpecMassage                                *)
(***************************************************************************)
InitMassage ==
    /\ mPc = "call"
    /\ mAllowed \in SeqsOf(PathPool, 1, MaxPaths)
    /\ mItems \in SeqsOf(CandPool, 0, MaxItems)
    /\ mChosen = <<>>
    /\ PipelineOff
    /\ store = EmptyStore
    /\ ThreadsOff
    /\ EndpointOff /\ RankerOff /\ RegistryOff /\ ExtOff

Massage ==
    /\ mPc = "call"
    /\ mChosen' = _massage(mItems, mAllowed)
    /\ mPc' = "done"
    /\ UNCHANGED <<mAllowed, mItems>>
    /\ UNCHANGED <<pipeVars, store, embVars, auxVars>>

NextMassage == Massage

SpecMassage == InitMassage /\ [][NextMassage]_vars

(***************************************************************************)
(* One caller and its selection requests: Spec                             *)
(***************************************************************************)
\* the upstream the next call will meet
Upstreams ==
    {[fail |-> 0, kind |-> "none"]}
    \cup {[fail |-> n, kind |-> k] : n \in 1..MaxFail, k \in FailKinds}

Init ==
    /\ MassageOff
    /\ ThreadsOff
    /\ EndpointOff /\ RankerOff /\ RegistryOff /\ ExtOff
    /\ pc = "start"
    /\ round = 1
    /\ rTree \in SeqsOf(TreePool, 1, MaxTree)
    /\ rInstr \in InstrPool
    /\ rLang \in {"absent", <<>>}
    /\ rClar \in {"none", "given"}
    /\ store = EmptyStore
    /\ shortlist = <<>>
    /\ \E u \in Upstreams : upFail = u.fail /\ upKind = u.kind
    /\ calls = 0
    /\ reply = NoReply
    /\ result = NoResult

\* the exception leaves autoselect_paths through the wrapper of
\* wrap_service_methods
Raise(exc, msg) ==
    /\ pc' = "raised"
    /\ result' = [NoResult EXCEPT !.status = "raised", !.error = _translate(exc),
                                  !.msg = msg]

\* lines 70-102: the cold index build
ColdIndex ==
    /\ pc = "start"
    /\ store' = IF store.paths = <<>>
                THEN index(store, cold_summaries(rTree, Len(rTree)))
                ELSE store
    /\ pc' = "rank"
    /\ UNCHANGED <<round, rTree, rInstr, rLang, rClar, shortlist, upFail, upKind,
                   calls, reply, result>>
    /\ UNCHANGED <<massVars, embVars, auxVars>>

\* lines 104-118: req.languages and the ranker
Rank ==
    /\ pc = "rank"
    /\ IF rLang = "absent"
       THEN Raise("AttributeError", M_NoAttribute) /\ UNCHANGED shortlist
       ELSE /\ \E hits \in top_k(store, Min(TopKCap, Len(rTree))) :
                 shortlist' = rank_candidates(rTree, rInstr,
                                  [p \in PathPool |-> _file_summary(p)],
                                  hits, lang_pref(rLang), KeepTop)
            /\ pc' = "call"
            /\ UNCHANGED result
    /\ UNCHANGED <<round, rTree, rInstr, rLang, rClar, store, upFail, upKind,
                   calls, reply>>
    /\ UNCHANGED <<massVars, embVars, auxVars>>

\* lines 121-122 and 167-208: one POST, then the decoding of the content
CallUpstream ==
    /\ pc = "call"
    /\ calls' = calls + 1
    /\ IF calls + 1 <= upFail
       THEN Raise(PostException(upKind), PostMessage(upKind)) /\ UNCHANGED reply
       ELSE \E r \in Replies :
              /\ reply' = r
              /\ IF ParseOutcome(r) = "return"
                 THEN pc' = "finish" /\ UNCHANGED result
                 ELSE Raise("UpstreamError", ParseMessage(r))
    /\ UNCHANGED <<round, rTree, rInstr, rLang, rClar, store, shortlist,
                   upFail, upKind>>
    /\ UNCHANGED <<massVars, embVars, auxVars>>

\* lines 123-131: resolution of the model's paths and the confidence gate
Finish ==
    /\ pc = "finish"
    /\ IF reply.kind = "json_other"
       THEN Raise("AttributeError", M_NoAttribute)
       ELSE LET selected == _massage(reply.selected, shortlist)
                conf == IF reply.hasConf THEN reply.conf ELSE 0
            IN  /\ pc' = "returned"
                /\ result' =
                     IF NeedsClarification(conf, rClar)
                     THEN [NoResult EXCEPT !.status = "returned",
                                           !.selected = selected, !.hasAsk = TRUE,
                                           !.ask = IF reply.hasAsk THEN reply.ask ELSE <<>>,
                                           !.conf = conf]
                     ELSE [NoResult EXCEPT !.status = "returned",
                                           !.selected = selected, !.conf = conf]
    /\ UNCHANGED <<round, rTree, rInstr, rLang, rClar, store, shortlist,
                   upFail, upKind, calls, reply>>
    /\ UNCHANGED <<massVars, embVars, auxVars>>

\* the caller answers a clarification request by calling again with
\* clarifications
Reinvoke ==
    /\ pc = "returned"
    /\ result.hasAsk
    /\ round = 1
    /\ round' = 2
    /\ rClar' = "given"
    /\ pc' = "start"
    /\ \E u \in Upstreams : upFail' = u.fail /\ upKind' = u.kind
    /\ calls' = 0
    /\ reply' = NoReply
    /\ result' = NoResult
    /\ shortlist' = <<>>
    /\ UNCHANGED <<rTree, rInstr, rLang, store>>
    /\ UNCHANGED <<massVars, embVars, auxVars>>

Next == ColdIndex \/ Rank \/ CallUpstream \/ Finish \/ Reinvoke

Spec == Init /\ [][Next]_vars

(***************************************************************************)
(* EmbeddingsService used from several threads: index() and update() run   *)
(* their bodies under the module-wide _LOCK, top_k() takes no lock.  Each   *)
(* action is one statement of the method the thread is executing.          *)
(***************************************************************************)
\* the maps index() is called with
IndexMaps ==
    { <<>>,
      <<[k |-> P_app, v |-> W_main]>>,
      <<[k |-> P_app, v |-> W_main], [k |-> P_env, v |-> T_env]>> }

\* the (path, summary) pairs update() is called with
UpdateArgs == {[k |-> p, v |-> w] : p \in {P_app, P_env}, w \in {W_main, T_env}}

\* the k top_k() is called with
KPool == {1, 2}

\* s without its element at position i (list.pop(i), IndexFlat.remove_ids([i]))
RemoveAt(s, i) == [j \in 1..(Len(s) - 1) |-> IF j < i THEN s[j] ELSE s[j + 1]]

\* list.index(x): the first position of x in s, 0 for ValueError
ListIndex(s, x) ==
    IF \E i \in 1..Len(s) : s[i] = x
    THEN CHOOSE i \in 1..Len(s) : s[i] = x /\ \A j \in 1..(i - 1) : s[j] # x
    ELSE 0

InitEmb ==
    /\ MassageOff
    /\ PipelineOff
    /\ store = EmptyStore
    /\ lock = "free"
    /\ tpc = [t \in Threads |-> "idle"]
    /\ tloc = [t \in Threads |-> NoLocals]
    /\ EndpointOff /\ RankerOff /\ RegistryOff /\ ExtOff

Goto(t, label) == tpc' = [tpc EXCEPT ![t] = label]

EmbFrame == UNCHANGED <<massVars, pipeVars, auxVars>>

\* a thread calls index(path_to_summary); an empty map returns before the lock
CallIndex(t) ==
    /\ tpc[t] = "idle"
    /\ \E m \in IndexMaps :
         /\ tloc' = [tloc EXCEPT ![t] = [NoLocals EXCEPT !.arg = m]]
         /\ Goto(t, IF m = <<>> THEN "done" ELSE "i_lock")
    /\ UNCHANGED <<store, lock>>
    /\ EmbFrame

CallUpdate(t) ==
    /\ tpc[t] = "idle"
    /\ \E a \in UpdateArgs :
         tloc' = [tloc EXCEPT ![t] = [NoLocals EXCEPT !.arg = <<a>>]]
    /\ Goto(t, "u_lock")
    /\ UNCHANGED <<store, lock>>
    /\ EmbFrame

CallTopK(t) ==
    /\ tpc[t] = "idle"
    /\ \E k \in KPool :
         tloc' = [tloc EXCEPT ![t] = [NoLocals EXCEPT !.k = k]]
    /\ Goto(t, "t_check")
    /\ UNCHANGED <<store, lock>>
    /\ EmbFrame

\* with _LOCK: entered by index() and by update()
Acquire(t) ==
    /\ tpc[t] \in {"i_lock", "u_lock"}
    /\ lock = "free"
    /\ lock' = t
    /\ Goto(t, IF tpc[t] = "i_lock" THEN "i_reset" ELSE "u_find")
    /\ UNCHANGED <<store, tloc>>
    /\ EmbFrame

\* self._index.reset()
IndexReset(t) ==
    /\ tpc[t] = "i_reset"
    /\ store' = [store EXCEPT !.vecs = <<>>]
    /\ Goto(t, "i_clear")
    /\ UNCHANGED <<lock, tloc>>
    /\ EmbFrame

\* self._paths = []; vecs = []
IndexClear(t) ==
    /\ tpc[t] = "i_clear"
    /\ store' = [store EXCEPT !.paths = <<>>]
    /\ tloc' = [tloc EXCEPT ![t].i = 1, ![t].vecs = <<>>]
    /\ Goto(t, "i_loop")
    /\ UNCHANGED lock
    /\ EmbFrame

\* one iteration: vecs.append(self.embed(summary)); self._paths.append(path)
IndexLoop(t) ==
    /\ tpc[t] = "i_loop"
    /\ tloc[t].i <= Len(tloc[t].arg)
    /\ LET item == tloc[t].arg[tloc[t].i]
       IN  /\ store' = [store EXCEPT !.paths = Append(@, item.k)]
           /\ tloc' = [tloc EXCEPT ![t].i = @ + 1,
                                   ![t].vecs = Append(@, embed(item.v))]
    /\ Goto(t, IF tloc[t].i = Len(tloc[t].arg) THEN "i_add" ELSE "i_loop")
    /\ UNCHANGED lock
    /\ EmbFrame

\* self._index.add(np.vstack(vecs))
IndexAdd(t) ==
    /\ tpc[t] = "i_add"
    /\ store' = [store EXCEPT !.vecs = @ \o tloc[t].vecs]
    /\ Goto(t, "unlock")
    /\ UNCHANGED <<lock, tloc>>
    /\ EmbFrame

\* idx = self._paths.index(path); self._index.reconstruct(idx)
UpdateFind(t) ==
    /\ tpc[t] = "u_find"
    /\ LET idx == ListIndex(store.paths, tloc[t].arg[1].k)
       IN  /\ tloc' = [tloc EXCEPT ![t].i = idx]
           /\ Goto(t, IF idx = 0 \/ idx > Len(store.vecs) THEN "u_append"
                      ELSE "u_remove")
    /\ UNCHANGED <<store, lock>>
    /\ EmbFrame

\* self._index.remove_ids(np.array([idx]))
UpdateRemove(t) ==
    /\ tpc[t] = "u_remove"
    /\ store' = [store EXCEPT !.vecs = RemoveAt(@, tloc[t].i)]
    /\ Goto(t, "u_pop")
    /\ UNCHANGED <<lock, tloc>>
    /\ EmbFrame

\* self._paths.pop(idx)
UpdatePop(t) ==
    /\ tpc[t] = "u_pop"
    /\ store' = [store EXCEPT !.paths = RemoveAt(@, tloc[t].i)]
    /\ Goto(t, "u_append")
    /\ UNCHANGED <<lock, tloc>>
    /\ EmbFrame

\* self._paths.append(path)
UpdateAppend(t) ==
    /\ tpc[t] = "u_append"
    /\ store' = [store EXCEPT !.paths = Append(@, tloc[t].arg[1].k)]
    /\ Goto(t, "u_add")
    /\ UNCHANGED <<lock, tloc>>
    /\ EmbFrame

\* self._index.add(self.embed(summary))
UpdateAdd(t) ==
    /\ tpc[t] = "u_add"
    /\ store' = [store EXCEPT !.vecs = Append(@, embed(tloc[t].arg[1].v))]
    /\ Goto(t, "unlock")
    /\ UNCHANGED <<lock, tloc>>
    /\ EmbFrame

\* leaving the with block
Release(t) ==
    /\ tpc[t] = "unlock"
    /\ lock = t
    /\ lock' = "free"
    /\ tloc' = [tloc EXCEPT ![t].ret = "ok"]
    /\ Goto(t, "done")
    /\ UNCHANGED store
    /\ EmbFrame

\* if not self._paths: return []
TopKCheck(t) ==
    /\ tpc[t] = "t_check"
    /\ IF store.paths = <<>>
       THEN /\ tloc' = [tloc EXCEPT ![t].ret = "ok"]
            /\ Goto(t, "done")
       ELSE /\ Goto(t, "t_search")
            /\ UNCHANGED tloc
    /\ UNCHANGED <<store, lock>>
    /\ EmbFrame

\* D, I = self._index.search(q, min(k, len(self._paths))): the ids with
\* d > 0.1 are some of the stored vectors, in any order
TopKSearch(t) ==
    /\ tpc[t] = "t_search"
    /\ LET n == Min(Min(tloc[t].k, Len(store.paths)), Len(store.vecs))
       IN  \E f \in UNION {Arrangements(1..Len(store.vecs), m) : m \in 0..n} :
             tloc' = [tloc EXCEPT ![t].found = f, ![t].i = 1]
    /\ Goto(t, "t_collect")
    /\ UNCHANGED <<store, lock>>
    /\ EmbFrame

\* one element of [self._paths[i] for i, d in zip(I[0], D[0]) if d > 0.1],
\* then return hits[:k]
TopKCollect(t) ==
    /\ tpc[t] = "t_collect"
    /\ IF tloc[t].i > Len(tloc[t].found)
       THEN /\ tloc' = [tloc EXCEPT ![t].ret = "ok"]
            /\ Goto(t, "done")
       ELSE IF tloc[t].found[tloc[t].i] > Len(store.paths)
       THEN /\ tloc' = [tloc EXCEPT ![t].ret = "IndexError"]
            /\ Goto(t, "done")
       ELSE /\ tloc' = [tloc EXCEPT
                          ![t].hits = Append(@, store.paths[tloc[t].found[tloc[t].i]]),
                          ![t].i = @ + 1]
            /\ Goto(t, "t_collect")
    /\ UNCHANGED <<store, lock>>
    /\ EmbFrame

\* the call has returned or raised; the thread is free for the next one
Return(t) ==
    /\ tpc[t] = "done"
    /\ tloc' = [tloc EXCEPT ![t] = NoLocals]
    /\ Goto(t, "idle")
    /\ UNCHANGED <<store, lock>>
    /\ EmbFrame

NextEmb ==
    \E t \in Threads :
        \/ CallIndex(t) \/ CallUpdate(t) \/ CallTopK(t)
        \/ Acquire(t) \/ IndexReset(t) \/ IndexClear(t) \/ IndexLoop(t) \/ IndexAdd(t)
        \/ UpdateFind(t) \/ UpdateRemove(t) \/ UpdatePop(t) \/ UpdateAppend(t)
        \/ UpdateAdd(t) \/ Release(t)
        \/ TopKCheck(t) \/ TopKSearch(t) \/ TopKCollect(t) \/ Return(t)

SpecEmb == InitEmb /\ [][NextEmb]_vars


(***************************************************************************)
(* POST /api/autoselect: the controller builds the request object and      *)
(* calls the service                                                       *)
(***************************************************************************)
\* a value of the JSON body: a missing key, a string, a list, or a value of
\* some other JSON type
JAbsent  == [kind |-> "absent", val |-> <<>>]
JOther   == [kind |-> "other", val |-> <<>>]
JStr(s)  == [kind |-> "str", val |-> s]
JList(l) == [kind |-> "list", val |-> l]

I_blank == <<" ", "\t", " ">>
B_tmp   == <<"/", "t", "m", "p">>

\* the JSON bodies posted to the endpoint; `extra` is a key that is no field
\* of AutoSelectRequest
Payloads ==
    [instructions : {JAbsent, JOther, JStr(<<>>), JStr(I_blank), JStr(I_fix)},
     treePaths    : {JAbsent, JOther, JList(<<>>), JList(<<P_app>>),
                     JList(<<P_app, NonStr>>)},
     baseDir      : {JAbsent, JOther, JStr(B_tmp)},
     extra        : BOOLEAN]

\* the outcome of building a request: the exception raised, or the request
NoRequest == [error |-> "none", instructions |-> JAbsent, treePaths |-> JAbsent,
              baseDir |-> JAbsent]
Rejected(exc) == [NoRequest EXCEPT !.error = exc]

\* AutoSelectRequest.from_dict: ValueError or the validated request
from_dict(data) ==
    IF data.instructions.kind # "str" \/ strip(data.instructions.val, Whitespace) = <<>>
    THEN Rejected("ValueError")
    ELSE IF \/ data.treePaths.kind # "list"
            \/ \E i \in 1..Len(data.treePaths.val) : data.treePaths.val[i] = NonStr
            \/ data.treePaths.val = <<>>
    THEN Rejected("ValueError")
    ELSE IF data.baseDir.kind = "other"
    THEN Rejected("ValueError")
    ELSE [error |-> "none",
          instructions |-> JStr(strip(data.instructions.val, Whitespace)),
          treePaths |-> JList([i \in 1..Len(data.treePaths.val) |->
                                  strip(data.treePaths.val[i], Whitespace)]),
          baseDir |-> IF data.baseDir.kind = "str"
                         /\ strip(data.baseDir.val, Whitespace) # <<>>
                      THEN JStr(strip(data.baseDir.val, Whitespace))
                      ELSE JAbsent]

\* the dataclass constructor AutoSelectRequest(**data): TypeError for a
\* missing `instructions` or an unknown key, no check of the values
Construct(data) ==
    IF data.instructions.kind = "absent" \/ data.extra
    THEN Rejected("TypeError")
    ELSE [error |-> "none",
          instructions |-> data.instructions,
          treePaths |-> IF data.treePaths.kind = "absent" THEN JList(<<>>)
                        ELSE data.treePaths,
          baseDir |-> data.baseDir]

\* _validate_payload: AutoSelectRequest has neither model_validate nor
\* parse_obj, so the constructor is called
_validate_payload(data) ==
    IF Construct(data).error # "none" THEN Rejected("ValueError") ELSE Construct(data)

\* the exception classes the view catches around the service call, and the
\* status it answers with; anything else reaches the app's handler for
\* Exception, which answers 500
ViewStatus(error) ==
    CASE error = "ConfigError"   -> 500
      [] error = "UpstreamError" -> 502
      [] OTHER                   -> 500

NoExchange == [pc |-> "received", payload |-> <<>>, req |-> NoRequest, status |-> 0,
               error |-> "none", api_key |-> "set"]

InitEndpoint ==
    /\ MassageOff /\ PipelineOff /\ store = EmptyStore /\ ThreadsOff
    /\ RankerOff /\ RegistryOff /\ ExtOff
    /\ \E data \in Payloads, key \in {"set", "unset"} :
           ep = [NoExchange EXCEPT !.pc = "importing", !.payload = data,
                                   !.api_key = key]

EndpointFrame ==
    UNCHANGED <<massVars, pipeVars, store, embVars, rk, instances, last, cm, svc, cr>>

\* the import of the controllers package, which imports every controller
\* module: _autosel = AutoselectService() runs __init__, and __init__ raises
\* ConfigError when os.getenv("OPENROUTER_API_KEY") is empty; the exception
\* leaves the import and no view is registered
ImportController ==
    /\ ep.pc = "importing"
    /\ ep' = IF ep.api_key = "unset"
             THEN [ep EXCEPT !.pc = "import_failed", !.error = "ConfigError"]
             ELSE [ep EXCEPT !.pc = "received"]
    /\ EndpointFrame

\* req = _validate_payload(payload), 400 on any exception
ValidatePayload ==
    /\ ep.pc = "received"
    /\ ep' = IF _validate_payload(ep.payload).error # "none"
             THEN [ep EXCEPT !.pc = "responded", !.status = 400,
                             !.error = "ValueError"]
             ELSE [ep EXCEPT !.pc = "validated", !.req = _validate_payload(ep.payload)]
    /\ EndpointFrame

\* _autosel.autoselect_paths(req, return_debug=debug): the method has no such
\* parameter, the TypeError is raised inside the service wrapper
CallService ==
    /\ ep.pc = "validated"
    /\ ep' = [ep EXCEPT !.pc = "responded",
                        !.error = _translate("TypeError"),
                        !.status = ViewStatus(_translate("TypeError"))]
    /\ EndpointFrame

NextEndpoint == ImportController \/ ValidatePayload \/ CallService

SpecEndpoint == InitEndpoint /\ [][NextEndpoint]_vars

(***************************************************************************)
(* rank_candidates on its own: SpecRank                                    *)
(***************************************************************************)
\* the longest hit list embedding_svc.top_k returns to the ranker
MaxHits == 2

\* an instruction without a word of three letters
I_go == <<"g", "o">>

\* the hits come from the store, which may hold paths of an earlier tree
HitPool == TreePool \cup {P_deep}

Summaries == [p \in PathPool |-> _file_summary(p)]

InitRank ==
    /\ MassageOff /\ PipelineOff /\ store = EmptyStore /\ ThreadsOff
    /\ EndpointOff /\ RegistryOff /\ ExtOff
    /\ \E t \in SeqsOf(TreePool, 0, MaxTree), ins \in InstrPool \cup {I_go},
          h \in UNION {Arrangements(HitPool, n) : n \in 0..MaxHits},
          lb \in {{}, DefaultLangs}, kt \in 1..KeepTop :
         rk = [pc |-> "call", tree_paths |-> t, instructions |-> ins,
               emb_results |-> h, lang_bias |-> lb, keep_top |-> kt, out |-> <<>>]

\* the call of rank_candidates
RankCall ==
    /\ rk.pc = "call"
    /\ rk' = [rk EXCEPT !.pc = "done",
                        !.out = rank_candidates(rk.tree_paths, rk.instructions,
                                    Summaries, rk.emb_results, rk.lang_bias,
                                    rk.keep_top)]
    /\ UNCHANGED <<massVars, pipeVars, store, embVars, ep, instances, last, cm, svc, cr>>

NextRank == RankCall

SpecRank == InitRank /\ [][NextRank]_vars

(***************************************************************************)
(* The registry of EmbeddingsService instances and the methods of one      *)
(* instance called one after the other: SpecStore                          *)
(***************************************************************************)
\* os.getcwd() of the server process
Cwd == <<"/", "w">>

\* posixpath.isabs
isabs(path) == path # <<>> /\ path[1] = "/"

\* posixpath.join(a, b)
path_join(a, b) ==
    IF isabs(b) THEN b
    ELSE IF a = <<>> \/ a[Len(a)] = "/" THEN a \o b
    ELSE a \o <<"/">> \o b

\* the loop of posixpath.normpath over the first n components
RECURSIVE norm_comps(_, _, _)
norm_comps(comps, n, initial_slashes) ==
    IF n = 0 THEN <<>>
    ELSE LET new_comps == norm_comps(comps, n - 1, initial_slashes)
             comp == comps[n]
         IN  IF comp = <<>> \/ comp = <<".">> THEN new_comps
             ELSE IF \/ comp # <<".", ".">>
                     \/ (initial_slashes = 0 /\ new_comps = <<>>)
                     \/ (new_comps # <<>> /\ new_comps[Len(new_comps)] = <<".", ".">>)
                  THEN Append(new_comps, comp)
             ELSE IF new_comps # <<>> THEN SubSeq(new_comps, 1, Len(new_comps) - 1)
             ELSE new_comps

\* posixpath.normpath
normpath(path) ==
    IF path = <<>> THEN <<".">>
    ELSE LET initial_slashes ==
                 IF path[1] # "/" THEN 0
                 ELSE IF Len(path) >= 2 /\ path[2] = "/"
                         /\ ~(Len(path) >= 3 /\ path[3] = "/") THEN 2
                 ELSE 1
             comps == split(path, "/")
             body == join(norm_comps(comps, Len(comps), initial_slashes), "/")
             res == [i \in 1..initial_slashes |-> "/"] \o body
         IN  IF res = <<>> THEN <<".">> ELSE res

\* os.path.abspath
abspath(path) == normpath(IF isabs(path) THEN path ELSE path_join(Cwd, path))

\* the spellings base_dir arrives in
R_abs   == <<"/", "w", "/", "a">>
R_rel   == <<"a">>
R_dot   == <<".", "/", "a">>
R_slash == <<"/", "w", "/", "a", "/">>
R_up    == <<"/", "w", "/", "b", "/", ".", ".", "/", "a">>
R_b     == <<"/", "w", "/", "b">>
R_b_rel == <<"b">>

RootPool == {R_abs, R_rel, R_dot, R_slash, R_up, R_b, R_b_rel}

\* the directory a spelling names when the process opens it: the components
\* walked from the root, a relative spelling starting in the working directory
RECURSIVE Walk(_, _)
Walk(at, comps) ==
    IF comps = <<>> THEN at
    ELSE IF Head(comps) = <<>> \/ Head(comps) = <<".">> THEN Walk(at, Tail(comps))
    ELSE IF Head(comps) = <<".", ".">>
         THEN Walk(IF at = <<>> THEN at ELSE SubSeq(at, 1, Len(at) - 1), Tail(comps))
    ELSE Walk(Append(at, Head(comps)), Tail(comps))

Directory(spelling) ==
    Walk(IF isabs(spelling) THEN <<>> ELSE Walk(<<>>, split(Cwd, "/")),
         split(spelling, "/"))

\* a registry key that is base_dir as spelled
registry_key_raw(base_dir) == base_dir

\* the key of __new__: base_dir = os.path.abspath(base_dir)
registry_key(base_dir) == abspath(base_dir)

\* __new__ and __init__ of one construction: the registry afterwards.  An
\* object is numbered in the order of creation; a registered object has
\* _ready and __init__ returns at once.
construct(insts, base_dir) ==
    IF DictHas(insts, registry_key(base_dir)) THEN insts
    ELSE DictPut(insts, registry_key(base_dir),
                 [id |-> Len(insts) + 1, base_dir |-> abspath(base_dir),
                  store |-> EmptyStore])

\* update(path, summary) that only appends
update_append(st, path, summary) ==
    [paths |-> Append(st.paths, path), vecs |-> Append(st.vecs, embed(summary))]

\* update(path, summary) run to completion
update(st, path, summary) ==
    LET idx == ListIndex(st.paths, path)
        cut == IF idx # 0
               THEN [paths |-> RemoveAt(st.paths, idx), vecs |-> RemoveAt(st.vecs, idx)]
               ELSE st
    IN  [paths |-> Append(cut.paths, path), vecs |-> Append(cut.vecs, embed(summary))]

\* the instance registered under key
Inst(insts, key) == DictGet(insts, key, [id |-> 0, base_dir |-> key, store |-> EmptyStore])

WithStore(insts, key, st) == DictPut(insts, key, [Inst(insts, key) EXCEPT !.store = st])

Keys(d) == {d[i].k : i \in 1..Len(d)}

\* what the last call was: its arguments, the registry before it and what it
\* returned (inst: the number of the object, ret: the list of top_k)
NoCall == [op |-> "init", root |-> <<>>, key |-> <<>>, arg |-> <<>>, k |-> 0,
           before |-> <<>>, inst |-> 0, ret |-> <<>>]

InitStore ==
    /\ MassageOff /\ PipelineOff /\ store = EmptyStore /\ ThreadsOff
    /\ EndpointOff /\ RankerOff /\ ExtOff
    /\ instances = <<>>
    /\ last = NoCall

StoreFrame == UNCHANGED <<massVars, pipeVars, store, embVars, ep, rk, cm, svc, cr>>

\* EmbeddingsService(base_dir)
NewService ==
    /\ \E r \in RootPool :
         /\ instances' = construct(instances, r)
         /\ last' = [NoCall EXCEPT !.op = "new", !.root = r, !.key = registry_key(r),
                                   !.before = instances,
                                   !.inst = Inst(construct(instances, r),
                                                 registry_key(r)).id]
    /\ StoreFrame

\* inst.index(path_to_summary) on a registered instance
IndexService ==
    /\ \E key \in Keys(instances), m \in IndexMaps :
         /\ instances' = WithStore(instances, key, index(Inst(instances, key).store, m))
         /\ last' = [NoCall EXCEPT !.op = "index", !.key = key, !.arg = m,
                                   !.before = instances,
                                   !.inst = Inst(instances, key).id]
    /\ StoreFrame

\* inst.update(path, summary) on a registered instance
UpdateService ==
    /\ \E key \in Keys(instances), a \in UpdateArgs :
         /\ instances' = WithStore(instances, key,
                                   update(Inst(instances, key).store, a.k, a.v))
         /\ last' = [NoCall EXCEPT !.op = "update", !.key = key, !.arg = <<a>>,
                                   !.before = instances,
                                   !.inst = Inst(instances, key).id]
    /\ StoreFrame

\* inst.top_k(query, k) on a registered instance
TopKService ==
    /\ \E key \in Keys(instances), kk \in KPool :
         \E hits \in top_k(Inst(instances, key).store, kk) :
             last' = [NoCall EXCEPT !.op = "top_k", !.key = key, !.k = kk,
                                    !.before = instances,
                                    !.inst = Inst(instances, key).id,
                                    !.ret = hits]
    /\ UNCHANGED instances
    /\ StoreFrame

NextStore == NewService \/ IndexService \/ UpdateService \/ TopKService

SpecStore == InitStore /\ [][NextStore]_vars

(***************************************************************************)
(* CodemapService.extract_codemap over a list of files: SpecCodemap        *)
(***************************************************************************)
\* the longest rel_paths list of one call
MaxBatch == 2

\* the longest list of identifiers the tree walk collects
MaxRaw == 3

\* TOP_K of collect: 20 in the code
RefsTop == 2

\* the heads[:10] of the text fallback, in the scale of RefsTop
HeadsTop == 3

\* a failed call: the exception that left it
Raised(exc) == [exc |-> exc, val |-> <<>>]

\* a call that returned val
Returned(val) == [exc |-> "none", val |-> val]

\* _is_binary_sample: more than 30 % of the bytes are below 9 or above 126
_is_binary_sample(chunk) ==
    IF chunk = <<>> THEN FALSE
    ELSE 10 * Cardinality({i \in 1..Len(chunk) : chunk[i] < 9 \/ chunk[i] > 126})
             > 3 * Len(chunk)

\* the characters of the bytes below 128 that the files hold
ByteChar ==
    [b \in {10, 32, 35, 49, 61, 97, 98, 99, 102, 120} |->
        CASE b = 10 -> "\n" [] b = 32 -> " " [] b = 35 -> "#" [] b = 49 -> "1"
          [] b = 61 -> "=" [] b = 97 -> "a" [] b = 98 -> "b" [] b = 99 -> "c"
          [] b = 102 -> "f" [] b = 120 -> "x"]

IsContinuation(b) == 128 <= b /\ b <= 191

\* the length of the UTF-8 sequence that starts bs, 0 when bs starts with
\* bytes that are no UTF-8 (sequences of four bytes do not occur here)
Utf8Len(bs) ==
    IF bs[1] < 128 THEN 1
    ELSE IF 194 <= bs[1] /\ bs[1] <= 223 /\ Len(bs) >= 2 /\ IsContinuation(bs[2]) THEN 2
    ELSE IF 224 <= bs[1] /\ bs[1] <= 239 /\ Len(bs) >= 3
            /\ IsContinuation(bs[2]) /\ IsContinuation(bs[3]) THEN 3
    ELSE 0

\* open(path, encoding="utf-8").read(): the text, or UnicodeDecodeError; a
\* character outside ASCII is written "?"
RECURSIVE utf8_decode(_)
utf8_decode(bs) ==
    IF bs = <<>> THEN Returned(<<>>)
    ELSE IF Utf8Len(bs) = 0 THEN Raised("UnicodeDecodeError")
    ELSE LET rest == utf8_decode(SubSeq(bs, Utf8Len(bs) + 1, Len(bs)))
             c == IF Utf8Len(bs) = 1 THEN ByteChar[bs[1]] ELSE "?"
         IN  IF rest.exc # "none" THEN rest ELSE Returned(<<c>> \o rest.val)

\* the None that read_bytes returns
NoBytes == <<-1>>

\* FileStorageRepository.read_bytes(file_path) called with nargs positional
\* arguments after self: it has one parameter
read_bytes(f, nargs) ==
    IF nargs # 1 THEN Raised("TypeError")
    ELSE IF f.kind # "file" \/ ~f.readable THEN Returned(NoBytes)
    ELSE Returned(f.bytes)

\* FileStorageRepository.read_text: None for a missing or unreadable file
\* (OSError is caught), the text, or the UnicodeDecodeError of the decoder
read_text(f) ==
    IF f.kind # "file" \/ ~f.readable THEN Returned(None)
    ELSE utf8_decode(f.bytes)

\* _EXT_TO_LANG[os.path.splitext(path)[1].lower()], "none" for no entry
_lang_for(path) ==
    LET ext == lower(NameSuffix(PathName(path)))
    IN  IF ext \in {<<".", "p", "y">>} THEN "python"
        ELSE IF ext \in {<<".", "m", "d">>, <<".", "t", "x", "t">>,
                         <<".", "e", "n", "v">>, <<".", "j", "s", "o", "n">>} THEN "txt"
        ELSE IF ext \in {<<".", "j", "s">>, <<".", "j", "s", "x">>} THEN "javascript"
        ELSE IF ext \in {<<".", "t", "s">>, <<".", "t", "s", "x">>} THEN "typescript"
        ELSE IF ext = <<".", "c">> THEN "c"
        ELSE IF ext \in {<<".", "h">>, <<".", "c", "c">>, <<".", "c", "x", "x">>,
                         <<".", "c", "p", "p">>, <<".", "h", "p", "p">>,
                         <<".", "h", "h">>} THEN "cpp"
        ELSE "none"

\* _error_stub: the dict {"error": message}; the empty lists stand for the
\* keys it does not have
_error_stub(message) ==
    [error |-> message, classes |-> <<>>, functions |-> <<>>, references |-> <<>>]

E_Ignored    == "ignored"
E_Binary     == "Binary file - skipped"
E_TooLarge   == "File > size limit (4 MB) - skipped"
E_Unreadable == "Unreadable file"
E_NotRegular == "Not a regular file"
E_Decode     == "<str(UnicodeDecodeError)>"
E_Parser     == "<str(parser exception)>"
E_OSError    == "<str(OSError)>"

\* a summary without error
Summary(classes, functions, references) ==
    [error |-> "none", classes |-> classes, functions |-> functions,
     references |-> references]

\* _dedupe_preserve_order
RECURSIVE _dedupe_preserve_order(_)
_dedupe_preserve_order(items) ==
    IF items = <<>> THEN <<>>
    ELSE LET out == _dedupe_preserve_order(SubSeq(items, 1, Len(items) - 1))
             itm == items[Len(items)]
         IN  IF InList(itm, out) THEN out ELSE Append(out, itm)

\* identifiers of the files
N_handler == <<"h", "a", "n", "d", "l", "e", "r">>
N_service == <<"s", "e", "r", "v", "i", "c", "e">>
N_zeta    == <<"z", "e", "t", "a">>
N_props   == <<"p", "r", "o", "p", "s">>
N_using   == <<"u", "s", "i", "n", "g", " ", "n", "s", ":", ":", "z">>

\* the members of _COMMON_RESERVED, _COMMON_NOISE and _CPP_NOISE among them
NoiseWords == {N_props}

StartsWith(s, prefix) ==
    Len(s) >= Len(prefix) /\ SubSeq(s, 1, Len(prefix)) = prefix

\* the prefixes that double the weight of an identifier
HeavyPrefixes ==
    {<<"u", "s", "i", "n", "g", " ">>, <<"t", "y", "p", "e", "d", "e", "f", " ">>,
     <<"#", "d", "e", "f", "i", "n", "e", " ">>}

\* the prefixes that keep an identifier seen once
KeptPrefixes ==
    HeavyPrefixes
    \cup {<<"t", "e", "m", "p", "l", "a", "t", "e", "<", ">">>,
          <<"n", "a", "m", "e", "s", "p", "a", "c", "e", " ">>,
          <<"s", "t", "r", "u", "c", "t", " ">>, <<"e", "n", "u", "m", " ">>}

\* the test that drops an identifier before it is counted (none of the
\* identifiers here is a number)
IsNoise(ident) ==
    \/ Len(ident) < 2
    \/ lower(ident) \in NoiseWords
    \/ (StartsWith(ident, <<"_">>) /\ Len(ident) < 4)

\* freq[ident] after the loop over refs_raw
RefWeight(ident, refs_raw) ==
    Cardinality({i \in 1..Len(refs_raw) : refs_raw[i] = ident})
        * (IF \E h \in HeavyPrefixes : StartsWith(ident, h) THEN 2 ELSE 1)

\* how often the tree walk met ident
Occurrences(ident, refs_raw) ==
    Cardinality({i \in 1..Len(refs_raw) : refs_raw[i] = ident})

\* the keys of freq in the order of their first insertion
FreqKeys(refs_raw) ==
    _dedupe_preserve_order(SelectSeq(refs_raw, LAMBDA ident : ~IsNoise(ident)))

\* sorted(freq.items(), key=lambda t: (-t[1], t[0])), the names only
FreqSorted(refs_raw) ==
    LET ranked == sort_ranked([i \in 1..Len(FreqKeys(refs_raw)) |->
                      [score |-> RefWeight(FreqKeys(refs_raw)[i], refs_raw),
                       rel |-> FreqKeys(refs_raw)[i]]])
    IN  [i \in 1..Len(ranked) |-> ranked[i].rel]

\* _SymbolCollector.collect after the walk filled classes, funcs and refs_raw
collect(walk) ==
    LET kept == SelectSeq(FreqSorted(walk.refs_raw),
                    LAMBDA name :
                        \/ RefWeight(name, walk.refs_raw) > 1
                        \/ \E k \in KeptPrefixes : StartsWith(name, k)
                        \/ (Len(name) > 6 /\ RefWeight(name, walk.refs_raw) = 1))
    IN  Summary(_dedupe_preserve_order(walk.classes),
                _dedupe_preserve_order(walk.funcs),
                _dedupe_preserve_order(Prefix(kept, RefsTop)))

\* the end of the line that position p is in
LineEnd(text, p) ==
    IF \E q \in p..Len(text) : text[q] = "\n"
    THEN (CHOOSE q \in p..Len(text) :
              text[q] = "\n" /\ \A r \in p..(q - 1) : text[r] # "\n") - 1
    ELSE Len(text)

\* the match of ^#+\s*(.+)$ that starts at p: [from, to] of the group, or
\* [0, 0]; #+ and \s* take as much as they can and give back one by one
HeadMatch(text, p) ==
    LET hashes == {h \in 1..(Len(text) - p + 1) :
                      \A i \in p..(p + h - 1) : text[i] = "#"}
        blank(h) == {w \in 0..(Len(text) - p - h + 1) :
                        \A i \in (p + h)..(p + h + w - 1) : text[i] \in Whitespace}
        fits(h, w) == /\ p + h + w <= Len(text)
                      /\ text[p + h + w] # "\n"
        pairs == {<<h, w>> \in hashes \X (0..Len(text)) :
                     w \in blank(h) /\ fits(h, w)}
    IN  IF p > Len(text) \/ pairs = {} THEN [from |-> 0, to |-> 0]
        ELSE LET hw == CHOOSE x \in pairs :
                           \A y \in pairs : y[1] < x[1] \/ (y[1] = x[1] /\ y[2] <= x[2])
             IN  [from |-> p + hw[1] + hw[2],
                  to |-> LineEnd(text, p + hw[1] + hw[2])]

\* re.findall(r"^#+\s*(.+)$", content, flags=re.M) from position p on
RECURSIVE find_heads(_, _)
find_heads(text, p) ==
    IF p > Len(text) THEN <<>>
    ELSE IF (p = 1 \/ text[p - 1] = "\n") /\ HeadMatch(text, p).from # 0
    THEN <<SubSeq(text, HeadMatch(text, p).from, HeadMatch(text, p).to)>>
             \o find_heads(text, HeadMatch(text, p).to + 1)
    ELSE find_heads(text, p + 1)

\* CodemapService._extract_one: the entry of one regular file, or the
\* exception that leaves it
_extract_one(f) ==
    LET lang == _lang_for(f.rel)
        sample == read_bytes(f, 2)
        raw == IF sample.exc # "none" \/ sample.val = NoBytes THEN <<>> ELSE sample.val
        content == read_text(f)
    IN  IF lang = "none" THEN Returned(_error_stub(E_Ignored))
        ELSE IF _is_binary_sample(raw) THEN Returned(_error_stub(E_Binary))
        ELSE IF f.kind # "file" THEN Raised("OSError")
        ELSE IF f.big THEN Returned(_error_stub(E_TooLarge))
        ELSE IF content.exc # "none" THEN Raised(content.exc)
        ELSE IF content.val = None THEN Returned(_error_stub(E_Unreadable))
        ELSE IF lang = "txt"
             THEN Returned(Summary(<<>>, <<>>,
                                   Prefix(find_heads(content.val, 1), HeadsTop)))
        ELSE IF f.walk.raises THEN Raised("Exception")
        ELSE Returned(collect(f.walk))

\* str(exc) of the exception that left _extract_one
ExcText(exc) ==
    CASE exc = "UnicodeDecodeError" -> E_Decode
      [] exc = "OSError"            -> E_OSError
      [] OTHER                      -> E_Parser

\* except Exception as exc: result[rel] = self._error_stub(str(exc))
Caught(outcome) ==
    IF outcome.exc # "none" THEN Returned(_error_stub(ExcText(outcome.exc)))
    ELSE outcome

\* a loop body without the try around _extract_one
EntryOf_uncaught(f) ==
    IF f.kind # "file" THEN Returned(_error_stub(E_NotRegular))
    ELSE _extract_one(f)

\* the body of the loop of extract_codemap for one path: result[rel], or the
\* exception that leaves the loop
EntryOf(f) ==
    IF f.kind # "file" THEN Returned(_error_stub(E_NotRegular))
    ELSE Caught(_extract_one(f))

\* result[rel] = entry, unless the loop has ended or ends here
PutEntry(before, rel, entry) ==
    IF before.exc # "none" THEN before
    ELSE IF entry.exc # "none" THEN Raised(entry.exc)
    ELSE Returned(DictPut(before.val, rel, entry.val))

\* extract_codemap(base_dir, rel_paths) for an existing base_dir, after the
\* first n paths: the dict, or the exception that ended the loop
RECURSIVE extract_codemap(_, _)
extract_codemap(files, n) ==
    IF n = 0 THEN Returned(<<>>)
    ELSE PutEntry(extract_codemap(files, n - 1), files[n].rel, EntryOf(files[n]))

\* ---- the files of the project directory ----
B_text  == <<120, 61, 49>>
B_heads == <<35, 32, 98, 10, 35, 32, 97, 10, 35, 32, 98>>
B_png   == <<137, 80, 78, 71, 13, 10, 26, 10, 0, 0, 0, 13>>

\* a tree walk that found nothing
NoWalk == [raises |-> FALSE, classes |-> <<>>, funcs |-> <<>>, refs_raw |-> <<>>]

IdentPool == {N_service, N_zeta, N_props, N_using}

\* what the walk of the parse tree of a.cpp can leave in the collector
WalkPool ==
    {[raises |-> FALSE, classes |-> <<N_handler, N_service, N_handler>>,
      funcs |-> <<N_zeta, N_zeta>>, refs_raw |-> r] :
        r \in SeqsOf(IdentPool, 0, MaxRaw)}

File(rel, kind, readable, bytes, walk) ==
    [rel |-> rel, kind |-> kind, readable |-> readable, bytes |-> bytes,
     big |-> FALSE, walk |-> walk]

F_cpp   == <<"a", ".", "c", "p", "p">>
F_md    == <<"b", ".", "m", "d">>
F_png   == <<"l", ".", "p", "n", "g">>
F_json  == <<"i", ".", "j", "s", "o", "n">>
F_gone  == <<"g", ".", "p", "y">>
F_lock  == <<"k", ".", "p", "y">>
F_bad   == <<"e", ".", "j", "s">>

DirRels == {F_cpp, F_md, F_png, F_json, F_gone, F_lock, F_bad}

\* what base_dir holds under the name rel; w is what the walk of a.cpp finds
DirEntry(rel, w) ==
    CASE rel = F_cpp   -> File(rel, "file", TRUE, B_text, w)
      [] rel = F_md    -> File(rel, "file", TRUE, B_heads, NoWalk)
      [] rel = F_png   -> File(rel, "file", TRUE, B_png, NoWalk)
      [] rel = F_json  -> File(rel, "file", TRUE, B_png, NoWalk)
      [] rel = F_gone  -> File(rel, "missing", FALSE, <<>>, NoWalk)
      [] rel = F_lock  -> File(rel, "file", FALSE, B_text, NoWalk)
      [] rel = F_bad   -> File(rel, "file", TRUE, B_text, [NoWalk EXCEPT !.raises = TRUE])

\* rel_paths is a list of distinct paths of the directory
InitCodemap ==
    /\ MassageOff /\ PipelineOff /\ ThreadsOff /\ EndpointOff /\ RankerOff
    /\ store = EmptyStore /\ RegistryOff /\ SummaryOff /\ RequestsOff
    /\ \E m \in 0..MaxBatch :
           \E rels \in Arrangements(DirRels, m) :
               \E w \in IF InList(F_cpp, rels) THEN WalkPool ELSE {NoWalk} :
                   cm = [pc |-> "called",
                         files |-> [i \in 1..m |-> DirEntry(rels[i], w)],
                         result |-> Returned(<<>>)]

\* one call of extract_codemap
ExtractCall ==
    /\ cm.pc = "called"
    /\ cm' = [cm EXCEPT !.pc = "done",
                        !.result = extract_codemap(cm.files, Len(cm.files))]
    /\ UNCHANGED <<massVars, pipeVars, store, embVars, sideVars, svc, cr>>

NextCodemap == ExtractCall

SpecCodemap == InitCodemap /\ [][NextCodemap]_vars

(***************************************************************************)
(* The file summaries of the process-wide AutoselectService: SpecSummary   *)
(***************************************************************************)
\* the number of selection requests served
MaxReq == 2

\* the longest treePaths of these requests
MaxReqPaths == 2

\* re.sub(r"\s+", " ", s)
RECURSIVE collapse_ws(_)
collapse_ws(s) ==
    IF s = <<>> THEN <<>>
    ELSE IF s[1] \in Whitespace
    THEN <<" ">> \o collapse_ws(lstrip(s, Whitespace))
    ELSE <<s[1]>> \o collapse_ws(Tail(s))

\* _cheap_summary of a text without declaration headers: its first ten
\* non-blank lines, stripped and joined (no text here reaches max_len)
_cheap_summary(text) ==
    IF text = <<>> THEN <<>>
    ELSE LET stripped == [i \in 1..Len(split(text, "\n")) |->
                             strip(split(text, "\n")[i], Whitespace)]
             lines == Prefix(SelectSeq(stripped, LAMBDA ln : ln # <<>>), 10)
         IN  collapse_ws(join_str(lines, <<" ">>))

\* the one-line summary built from structured codemap data, <<>> when the
\* data has no classes, functions or references
structured_summary(data) ==
    join_str((IF data.classes # <<>>
              THEN <<L_Classes \o join_str(Prefix(data.classes, 10), <<",", " ">>)>>
              ELSE <<>>)
             \o (IF data.functions # <<>>
                 THEN <<L_Functions \o join_str(Prefix(data.functions, 15), <<",", " ">>)>>
                 ELSE <<>>)
             \o (IF data.references # <<>>
                 THEN <<L_Refs \o join_str(Prefix(data.references, 20), <<",", " ">>)>>
                 ELSE <<>>),
             <<";", " ">>)

\* data = codemap.get(basename), {"error": "Extraction failed"} on an exception
codemap_data(codemap) ==
    IF codemap.exc # "none" THEN _error_stub("Extraction failed")
    ELSE codemap.val[1].v

\* self._cheap_summary(self._storage.read_text(abs_path) or "")
cheap_fallback(text) ==
    IF text.exc # "none" THEN Raised(text.exc)
    ELSE IF text.val = None THEN Returned(<<>>)
    ELSE Returned(_cheap_summary(text.val))

\* the one-liner s when the data has no error and s is not empty, the
\* fallback otherwise
one_liner_or(data, s, f) ==
    IF data.error = "none" /\ s # <<>> THEN Returned(s)
    ELSE cheap_fallback(read_text(f))

\* what _file_summary stores in _debug_map, and what it returns or raises
summary_or_fallback(data, f) ==
    [debug |-> data, ret |-> one_liner_or(data, structured_summary(data), f)]

\* the body of AutoselectService._file_summary for the file f: the data it
\* stores in _debug_map and the summary it returns or the exception it raises
file_summary_body(f) ==
    summary_or_fallback(codemap_data(extract_codemap(<<f>>, 1)), f)

\* a miss of the cache: the body has run
memoise(st, rel, body) ==
    IF body.ret.exc # "none"
    THEN [st EXCEPT !.debug = DictPut(@, rel, body.debug),
                    !.exc = body.ret.exc]
    ELSE [st EXCEPT !.debug = DictPut(@, rel, body.debug),
                    !.cache = DictPut(@, rel, body.ret.val),
                    !.out = Append(@, body.ret.val)]

\* AutoselectService._file_summary(abs_path, rel_path) behind
\* @lru_cache(maxsize=2048), called while the service is in state st: a hit
\* returns the memoised string, a miss runs the body and memoises what it
\* returns (an exception is not memoised)
cached_file_summary(st, f) ==
    IF DictHas(st.cache, f.rel)
    THEN [st EXCEPT !.out = Append(@, DictGet(st.cache, f.rel, <<>>))]
    ELSE memoise(st, f.rel, file_summary_body(f))

\* the next call of _file_summary, unless an exception has ended the request
next_summary(before, f) ==
    IF before.exc # "none" THEN before ELSE cached_file_summary(before, f)

\* one loop over req.treePaths that calls _file_summary for each path: the
\* loop of the cold index build, and the loop of rank_candidates
RECURSIVE summary_loop(_, _, _)
summary_loop(st, files, n) ==
    IF n = 0 THEN [st EXCEPT !.out = <<>>]
    ELSE next_summary(summary_loop(st, files, n - 1), files[n])

\* emb_svc.index(summaries) after the loop of the cold build
index_summaries(cold, files) ==
    IF cold.exc # "none" THEN cold
    ELSE [cold EXCEPT !.indexed = [i \in 1..Len(files) |-> files[i].rel]]

\* if not emb_svc._paths: the cold index build
cold_build(st, files) ==
    IF st.indexed # <<>> THEN st
    ELSE index_summaries(summary_loop(st, files, Len(files)), files)

\* rank_candidates calls file_summary_fn for every path of treePaths
rank_summaries(st, files) ==
    IF st.exc # "none" THEN st ELSE summary_loop(st, files, Len(files))

\* autoselect_paths up to the shortlist: the cold index build when the
\* index of the project is empty, then the summaries the ranker is given
summary_stages(st, files) == rank_summaries(cold_build(st, files), files)

\* ---- the files of the project ----
B_one == <<35, 32, 97>>

F_txt == <<"n", ".", "t", "x", "t">>

ProjectRels == {F_md, F_txt, F_json, F_gone, F_lock}

\* the contents a file of the project can be given
Versions(rel) ==
    IF rel = F_md THEN {B_heads, B_one}
    ELSE IF rel = F_txt THEN {B_text, B_one}
    ELSE {}

InitDisk ==
    [rel \in ProjectRels |->
        CASE rel = F_md   -> File(rel, "file", TRUE, B_heads, NoWalk)
          [] rel = F_txt  -> File(rel, "file", TRUE, B_text, NoWalk)
          [] rel = F_json -> File(rel, "file", TRUE, B_png, NoWalk)
          [] rel = F_gone -> File(rel, "missing", FALSE, <<>>, NoWalk)
          [] rel = F_lock -> File(rel, "file", FALSE, B_text, NoWalk)]

\* no request served yet
NoOutcome == [tree |-> <<>>, exc |-> "none", summaries |-> <<>>]

InitSummary ==
    /\ MassageOff /\ PipelineOff /\ ThreadsOff /\ EndpointOff /\ RankerOff
    /\ store = EmptyStore /\ RegistryOff /\ CodemapOff /\ RequestsOff
    /\ svc = [pc |-> "idle", disk |-> InitDisk, cache |-> <<>>, debug |-> <<>>,
              indexed |-> <<>>, served |-> 0, last |-> NoOutcome]

SummaryFrame == UNCHANGED <<massVars, pipeVars, store, embVars, sideVars, cm, cr>>

\* the service after the request for tree has ended in state after; an
\* exception leaves autoselect_paths through the wrapper of the service
Served(tree, after) ==
    [svc EXCEPT !.cache = after.cache,
                !.debug = after.debug,
                !.indexed = after.indexed,
                !.served = @ + 1,
                !.last = [tree |-> tree,
                          exc |-> IF after.exc = "none" THEN "none"
                                  ELSE _translate(after.exc),
                          summaries |-> after.out]]

\* one selection request for treePaths = tree, up to the shortlist
SelectRequest ==
    /\ svc.pc = "idle"
    /\ svc.served < MaxReq
    /\ \E m \in 1..MaxReqPaths :
           \E tree \in Arrangements(ProjectRels, m) :
               svc' = Served(tree, summary_stages(
                                [cache |-> svc.cache, debug |-> svc.debug,
                                 indexed |-> svc.indexed, exc |-> "none", out |-> <<>>],
                                [i \in 1..m |-> svc.disk[tree[i]]]))
    /\ SummaryFrame

\* a file of the project is saved with another content
WriteFile ==
    /\ svc.pc = "idle"
    /\ \E rel \in ProjectRels :
           \E bytes \in Versions(rel) \ {svc.disk[rel].bytes} :
               svc' = [svc EXCEPT !.disk[rel].bytes = bytes]
    /\ SummaryFrame

NextSummary == SelectRequest \/ WriteFile

SpecSummary == InitSummary /\ [][NextSummary]_vars

(***************************************************************************)
(* Overlapping selection requests for one project root: SpecReq            *)
(***************************************************************************)
\* EmbeddingsService._instances[abspath(base_dir)] before the first request
NoInstance ==
    [exists |-> FALSE, has_ready |-> FALSE, _ready |-> FALSE,
     has_index |-> FALSE, has_paths |-> FALSE, _paths |-> <<>>]

\* the treePaths of the requests
ReqTrees == {<<P_app>>, <<P_app, P_env>>}

\* a request thread before it constructs the service
NoThread == [pc |-> "start", tree |-> <<>>, hits |-> <<>>]

InitReq ==
    /\ MassageOff /\ PipelineOff /\ ThreadsOff /\ EndpointOff /\ RankerOff
    /\ store = EmptyStore /\ RegistryOff /\ CodemapOff /\ SummaryOff
    /\ cr = [pc |-> "run", lock |-> "free", inst |-> NoInstance,
             th |-> [t \in Threads |-> NoThread]]

ReqFrame == UNCHANGED <<massVars, pipeVars, store, embVars, sideVars, cm, svc>>

\* thread t moves to pc value p
ReqGoto(t, p) == [cr EXCEPT !.th[t].pc = p]

\* EmbeddingsService.__new__: get or create the instance, under _LOCK
ReqNew(t) ==
    /\ cr.th[t].pc = "start"
    /\ cr.lock = "free"
    /\ \E tree \in ReqTrees :
           cr' = [cr EXCEPT !.inst.exists = TRUE,
                            !.th[t].pc = "init",
                            !.th[t].tree = tree]
    /\ ReqFrame

\* __init__: if hasattr(self, "_ready"): return
ReqInitCheck(t) ==
    /\ cr.th[t].pc = "init"
    /\ cr' = ReqGoto(t, IF cr.inst.has_ready THEN "built" ELSE "set_ready")
    /\ ReqFrame

\* __init__: self._ready = False
ReqSetReady(t) ==
    /\ cr.th[t].pc = "set_ready"
    /\ cr' = [cr EXCEPT !.inst.has_ready = TRUE, !.inst._ready = FALSE,
                        !.th[t].pc = "set_index"]
    /\ ReqFrame

\* __init__: the model is loaded and self._index = faiss.IndexFlatIP(dim)
ReqSetIndex(t) ==
    /\ cr.th[t].pc = "set_index"
    /\ cr' = [cr EXCEPT !.inst.has_index = TRUE, !.th[t].pc = "set_paths"]
    /\ ReqFrame

\* __init__: self._paths = []; the new list goes with the new, empty index
ReqSetPaths(t) ==
    /\ cr.th[t].pc = "set_paths"
    /\ cr' = [cr EXCEPT !.inst.has_paths = TRUE, !.inst._paths = <<>>,
                        !.th[t].pc = "finish_init"]
    /\ ReqFrame

\* __init__: self._ready = True
ReqFinishInit(t) ==
    /\ cr.th[t].pc = "finish_init"
    /\ cr' = [cr EXCEPT !.inst._ready = TRUE, !.th[t].pc = "built"]
    /\ ReqFrame

\* autoselect_paths: if not emb_svc._paths
ReqReadPaths(t) ==
    /\ cr.th[t].pc = "built"
    /\ cr' = ReqGoto(t, IF ~cr.inst.has_paths THEN "AttributeError"
                        ELSE IF cr.inst._paths = <<>> THEN "cold"
                        ELSE "rank")
    /\ ReqFrame

\* the cold build: the summaries of treePaths, then index(): with _LOCK,
\* self._index.reset() and self._paths = []
ReqIndexReset(t) ==
    /\ cr.th[t].pc = "cold"
    /\ cr.lock = "free"
    /\ cr' = [cr EXCEPT !.lock = t, !.inst._paths = <<>>,
                        !.th[t].pc = "indexing"]
    /\ ReqFrame

\* index(): the loop over the summaries and the release of _LOCK
ReqIndexFill(t) ==
    /\ cr.th[t].pc = "indexing"
    /\ cr' = [cr EXCEPT !.lock = "free", !.inst._paths = cr.th[t].tree,
                        !.th[t].pc = "rank"]
    /\ ReqFrame

\* rank_candidates: embedding_svc.top_k reads self._paths without the lock
ReqRank(t) ==
    /\ cr.th[t].pc = "rank"
    /\ cr' = [cr EXCEPT !.th[t].hits = cr.inst._paths, !.th[t].pc = "done"]
    /\ ReqFrame

\* a later request on the thread that served one
ReqAgain(t) ==
    /\ cr.th[t].pc = "done"
    /\ cr' = [cr EXCEPT !.th[t] = NoThread]
    /\ ReqFrame

NextReq ==
    \E t \in Threads :
        \/ ReqNew(t) \/ ReqInitCheck(t) \/ ReqSetReady(t) \/ ReqSetIndex(t)
        \/ ReqSetPaths(t) \/ ReqFinishInit(t) \/ ReqReadPaths(t)
        \/ ReqIndexReset(t) \/ ReqIndexFill(t) \/ ReqRank(t) \/ ReqAgain(t)

SpecReq == InitReq /\ [][NextReq]_vars

(***************************************************************************)
(* Properties of fuzzy resolution (checked under SpecMassage)              *)
(***************************************************************************)
IsStr(raw) == raw # NonStr

\* canonical entries whose normalised, lower-cased form equals the candidate's
ExactIdx(cn, allowed) ==
    {i \in 1..Len(allowed) : lower(_norm(allowed[i])) = cn}

\* canonical entries that are files with the candidate's basename
BaseIdx(cn, allowed) ==
    IF HasDotName(cn)
    THEN {i \in 1..Len(allowed) :
             /\ HasDotName(_norm(allowed[i]))
             /\ lower(PathName(_norm(allowed[i]))) = lower(PathName(cn))}
    ELSE {}

\* canonical entries whose last one, two or three segments are the candidate
SuffIdx(cn, allowed) ==
    {i \in 1..Len(allowed) :
        LET segs == split(_norm(allowed[i]), "/")
        IN  \E n \in 1..3 : n <= Len(segs) /\ SuffixKey(segs, n) = cn}

PathsAt(idx, allowed) == {allowed[i] : i \in idx}

\* C2: every selected path comes from a candidate for which exactly one
\* canonical path satisfies the match of some stage; a candidate that two or
\* more canonical paths match (also at the exact stage) selects none of them.
C2_OnlyUnambiguous ==
    mPc = "done" =>
        \A c \in 1..Len(mChosen) :
            \E k \in 1..Len(mItems) :
                /\ IsStr(mItems[k])
                /\ LET cn == cand_norm(mItems[k])
                   IN  \/ PathsAt(ExactIdx(cn, mAllowed), mAllowed) = {mChosen[c]}
                       \/ /\ ExactIdx(cn, mAllowed) = {}
                          /\ \/ PathsAt(BaseIdx(cn, mAllowed), mAllowed) = {mChosen[c]}
                             \/ PathsAt(SuffIdx(cn, mAllowed), mAllowed) = {mChosen[c]}

\* for every candidate, the canonical entries each stage matches
StageMatches ==
    [k \in 1..Len(mItems) |->
        IF IsStr(mItems[k])
        THEN [ex |-> ExactIdx(cand_norm(mItems[k]), mAllowed),
              bs |-> BaseIdx(cand_norm(mItems[k]), mAllowed),
              sf |-> SuffIdx(cand_norm(mItems[k]), mAllowed)]
        ELSE [ex |-> {}, bs |-> {}, sf |-> {}]]

\* the stage that settles a candidate with the matches m justifies path p
StageJustifies(m, p) ==
    \/ m.ex # {} /\ p \in PathsAt(m.ex, mAllowed)
    \/ m.ex = {} /\ Cardinality(m.bs) = 1 /\ p \in PathsAt(m.bs, mAllowed)
    \/ m.ex = {} /\ Cardinality(m.bs) # 1 /\ Cardinality(m.sf) = 1
                 /\ p \in PathsAt(m.sf, mAllowed)

\* C8: the stages are tried in the order exact, basename, suffix, and a later
\* stage is consulted only when the earlier ones did not resolve: a candidate
\* with an exact match resolves to an exactly matching path whatever its
\* basename or suffix is shared with; without one, a single basename match
\* wins; without that, a single suffix match wins; and a candidate differing
\* only by letter case from the only file of its basename resolves to it.
C8_StagePriority ==
    mPc = "done" =>
        \A sm \in {StageMatches} :
            /\ \A k \in 1..Len(mItems) :
                  IsStr(mItems[k]) =>
                    /\ sm[k].ex # {} => \E i \in sm[k].ex : InList(mAllowed[i], mChosen)
                    /\ (sm[k].ex = {} /\ Cardinality(sm[k].bs) = 1) =>
                          \A i \in sm[k].bs : InList(mAllowed[i], mChosen)
                    /\ (sm[k].ex = {} /\ Cardinality(sm[k].bs) # 1
                                      /\ Cardinality(sm[k].sf) = 1) =>
                          \A i \in sm[k].sf : InList(mAllowed[i], mChosen)
                    /\ \A i \in 1..Len(mAllowed) :
                          ( /\ sm[k].bs = {i}
                            /\ mItems[k] # mAllowed[i]
                            /\ lower(mItems[k]) = lower(mAllowed[i]) )
                          => InList(mAllowed[i], mChosen)
            /\ \A c \in 1..Len(mChosen) :
                  \E k \in 1..Len(mItems) :
                      IsStr(mItems[k]) /\ StageJustifies(sm[k], mChosen[c])

\* C8 witness: a candidate with an exact match was selected although two
\* canonical files share its basename and its suffix
C8_Witness ==
    /\ mPc = "done"
    /\ \E k \in 1..Len(mItems) :
          /\ IsStr(mItems[k])
          /\ Cardinality(ExactIdx(cand_norm(mItems[k]), mAllowed)) = 1
          /\ Cardinality(BaseIdx(cand_norm(mItems[k]), mAllowed)) >= 2
          /\ Cardinality(SuffIdx(cand_norm(mItems[k]), mAllowed)) >= 2
          /\ \E i \in ExactIdx(cand_norm(mItems[k]), mAllowed) :
                mChosen = <<mAllowed[i]>>

\* the three spellings of a canonical path the normalisation is to identify
Backslashed(p) == [i \in 1..Len(p) |-> IF p[i] = "/" THEN "\\" ELSE p[i]]
DotSlashed(p) == <<".", "/">> \o p

\* a normalisation that turns backslashes into slashes, drops one leading
\* "./" and removes nothing else
NormAsClaimed(s) ==
    LET fwd == [i \in 1..Len(s) |-> IF s[i] = "\\" THEN "/" ELSE s[i]]
    IN  IF Len(fwd) >= 2 /\ SubSeq(fwd, 1, 2) = <<".", "/">>
        THEN as_posix(SubSeq(fwd, 3, Len(fwd)))
        ELSE as_posix(fwd)

\* C9: a candidate spelled as a canonical path p, as ./p or as p with
\* backslash separators resolves to p (p being the only canonical path with
\* that normalised form), and normalising a candidate turns backslashes into
\* slashes, drops a leading ./ and removes nothing else.
C9_SpellingsResolveAlike ==
    mPc = "done" =>
        \A k \in 1..Len(mItems) :
            IsStr(mItems[k]) =>
              /\ \A i \in 1..Len(mAllowed) :
                    ( /\ mItems[k] \in {mAllowed[i], DotSlashed(mAllowed[i]),
                                         Backslashed(mAllowed[i])}
                      /\ ExactIdx(lower(_norm(mAllowed[i])), mAllowed) = {i} )
                    => InList(mAllowed[i], mChosen)
              /\ _norm(mItems[k]) = NormAsClaimed(mItems[k])

\* what each candidate resolves to on its own
Resolved ==
    [k \in 1..Len(mItems) |->
        IF IsStr(mItems[k]) THEN Resolve(mItems[k], mAllowed) ELSE None]

\* the first candidate that res maps to path p
FirstIdx(res, p) ==
    CHOOSE k \in DOMAIN res : res[k] = p /\ \A j \in 1..(k - 1) : res[j] # p

\* C10: the selection lists each resolved path once, in the order of the
\* first candidate that resolved to it.
C10_OrderAndDedup ==
    mPc = "done" =>
        \A res \in {Resolved} :
            /\ \A i, j \in 1..Len(mChosen) : i # j => mChosen[i] # mChosen[j]
            /\ \A i \in 1..Len(mChosen) : \E k \in DOMAIN res : res[k] = mChosen[i]
            /\ \A k \in DOMAIN res : res[k] # None => InList(res[k], mChosen)
            /\ \A i, j \in 1..Len(mChosen) :
                  i < j => FirstIdx(res, mChosen[i]) < FirstIdx(res, mChosen[j])

\* C10 witness: two differently spelled candidates resolved to one path, which
\* is listed once
C10_Witness ==
    /\ mPc = "done"
    /\ Len(mItems) >= 2
    /\ mItems[1] # mItems[2]
    /\ IsStr(mItems[1]) /\ IsStr(mItems[2])
    /\ Resolve(mItems[1], mAllowed) = Resolve(mItems[2], mAllowed)
    /\ mChosen = <<Resolve(mItems[1], mAllowed)>>

(***************************************************************************)
(* Properties of a selection request (checked under Spec)                  *)
(***************************************************************************)
\* float(llm_json.get("confidence", 0.0)), in hundredths
ReplyConf == IF reply.hasConf THEN reply.conf ELSE 0

\* C1: every element of `selected` of a returned result, final or not, is a
\* verbatim member of the request's treePaths.
C1_SelectedWithinTree ==
    pc = "returned" =>
        \A i \in 1..Len(result.selected) : InList(result.selected[i], rTree)

\* C1 witness: the model returned a string that is no member of treePaths and
\* the result lists the canonical path it resolved to
C1_Witness ==
    /\ pc = "returned"
    /\ \E k \in 1..Len(reply.selected) :
          /\ ~InList(reply.selected[k], rTree)
          /\ Resolve(reply.selected[k], shortlist) # None
          /\ InList(Resolve(reply.selected[k], shortlist), result.selected)

\* C3: a returned result is final (carries no `ask`) exactly when the model's
\* confidence is at least 0.95 or the call was given clarifications; a
\* non-final result carries the model's questions and confidence; the call
\* made with clarifications, hence the caller's second call, is always final.
C3_ConfidenceGate ==
    pc = "returned" =>
        /\ ~result.hasAsk <=> (ReplyConf >= 95 \/ rClar = "given")
        /\ result.hasAsk =>
              /\ result.ask = (IF reply.hasAsk THEN reply.ask ELSE <<>>)
              /\ result.conf = ReplyConf
        /\ round = 2 => ~result.hasAsk

\* C3 witness: the second call returned a final result although the model
\* reported a confidence below 0.95
C3_Witness ==
    /\ pc = "returned"
    /\ round = 2
    /\ rClar = "given"
    /\ ReplyConf < 95
    /\ ~result.hasAsk

\* C4: a call of the upstream that fails with a timeout, a network error or a
\* 5xx status is retried: the selection fails only after a further attempt.
C4_TransientFailureRetried ==
    (pc = "raised" /\ calls >= 1 /\ upFail = 1 /\ upKind \in TransientKinds)
        => calls >= 2

\* C5: a reply that wraps malformed JSON in a Markdown fence and still has
\* lines naming canonical paths yields the selection the line parser resolves
\* from those lines, and no error.
C5_FencedReplyFallsBack ==
    ( /\ pc \in {"returned", "raised"}
      /\ reply.kind = "fenced"
      /\ _legacy_parse(reply.text, shortlist) # <<>> )
    => /\ result.status = "returned"
       /\ result.selected = _legacy_parse(reply.text, shortlist)

\* C7: a result that is not final always carries at least one question.
C7_NonFinalHasQuestion ==
    (pc = "returned" /\ result.hasAsk) => result.ask # <<>>

\* C6: a thread is never inside top_k() while another thread is inside the
\* locked body of index() or update(), and whenever a thread is inside
\* top_k() the path list is as long as the number of stored vectors.
C6_ReadersExcludedFromWriters ==
    \A t \in Threads :
        tpc[t] \in {"t_check", "t_search", "t_collect"} =>
            /\ \A u \in Threads \ {t} : lock # u
            /\ Len(store.paths) = Len(store.vecs)

\* C11: a 4xx response is not retried (one upstream request) and reaches the
\* caller as a configuration or invalid-input error.
C11_ClientErrorNotRetried ==
    (pc = "raised" /\ calls >= 1 /\ upFail >= 1 /\ upKind = "http4xx")
        => /\ calls = 1
           /\ result.error \in {"ConfigurationError", "InvalidInputError"}

\* the reply content is text that is not JSON and names no usable path
Undecodable ==
    /\ reply.kind \in {"garbage", "fenced"}
    /\ _legacy_parse(reply.text, shortlist) = <<>>

\* C12: when the reply content cannot be decoded as JSON and yields no usable
\* path, the call raises UpstreamServiceError naming invalid JSON and returns
\* no selection.
C12_UndecodableReplyRaises ==
    (pc \in {"finish", "returned", "raised"} /\ Undecodable)
        => /\ pc = "raised"
           /\ result.status = "raised"
           /\ result.error = "UpstreamServiceError"
           /\ result.msg = M_InvalidJson
           /\ result.selected = <<>>

\* C12 witness: a fenced reply without a usable path made the call raise
C12_Witness ==
    /\ pc = "raised"
    /\ reply.kind = "fenced"
    /\ Undecodable
    /\ result.error = "UpstreamServiceError"

\* C13: the confidence of every returned result lies in [0, 1].
C13_ConfidenceInUnitInterval ==
    pc = "returned" => (0 <= result.conf /\ result.conf <= 100)

\* C14: a request with an empty treePaths list, or with instructions that are
\* empty after trimming, is what from_dict rejects and is answered with 400.
C14_InvalidRequestRejected ==
    ( /\ ep.pc = "responded"
      /\ \/ ep.payload.treePaths = JList(<<>>)
         \/ /\ ep.payload.instructions.kind = "str"
            /\ strip(ep.payload.instructions.val, Whitespace) = <<>> )
    => /\ from_dict(ep.payload).error = "ValueError"
       /\ ep.status = 400

(***************************************************************************)
(* Properties of the ranker (checked under SpecRank)                       *)
(***************************************************************************)
\* the score the ranker gives candidate rel in the current call
RkScore(rel) ==
    score_of(rel, _tokens(rk.instructions), Summaries[rel], rk.emb_results,
             rk.lang_bias)

\* the score without the semantic bonus, on the same scale
RkBaseScore(rel) ==
    ScoreScale(rk.emb_results)
        * score_of(rel, _tokens(rk.instructions), Summaries[rel], <<>>, rk.lang_bias)

\* C15: the shortlist consists of members of tree_paths and is no longer than
\* keep_top, also on the zero-score path and with hits that are no candidates.
C15_ShortlistWithinTree ==
    rk.pc = "done" =>
        /\ \A i \in 1..Len(rk.out) : InList(rk.out[i], rk.tree_paths)
        /\ Len(rk.out) <= rk.keep_top

\* C15 witness: a hit list naming a path outside a tree longer than keep_top
C15_Witness ==
    /\ rk.pc = "done"
    /\ \E i \in 1..Len(rk.emb_results) : ~InList(rk.emb_results[i], rk.tree_paths)
    /\ Len(rk.tree_paths) > rk.keep_top
    /\ Len(rk.out) = rk.keep_top

\* the candidate entry the ranker builds for rel
RkEntry(rel) == [score |-> RkScore(rel), rel |-> rel]

\* the first position of rel in the returned shortlist, 0 when it is missing
RkPos(rel) ==
    IF InList(rel, rk.out)
    THEN CHOOSE i \in 1..Len(rk.out) :
             rk.out[i] = rel /\ \A j \in 1..(i - 1) : rk.out[j] # rel
    ELSE 0

\* some candidate of the current call has a positive score
RkPositive == \E i \in 1..Len(rk.tree_paths) : RkScore(rk.tree_paths[i]) > 0

\* the shortlist is the head of the candidates in (score descending, path
\* ascending) order, cut at keep_top
RkSortedByScore ==
    /\ Len(rk.out) = (IF rk.keep_top < Len(rk.tree_paths)
                      THEN rk.keep_top ELSE Len(rk.tree_paths))
    /\ \A i, j \in 1..Len(rk.out) :
           i < j => ~RankedBefore(RkEntry(rk.out[j]), RkEntry(rk.out[i]))
    /\ \A t \in 1..Len(rk.tree_paths), i \in 1..Len(rk.out) :
           RankedBefore(RkEntry(rk.tree_paths[t]), RkEntry(rk.out[i]))
               => (RkPos(rk.tree_paths[t]) # 0 /\ RkPos(rk.tree_paths[t]) < i)

\* the top embedding hit, when it is a candidate, comes before every candidate
\* with the same score apart from the semantic part
RkTopHitFirst ==
    \A a, b \in 1..Len(rk.tree_paths) :
        LET ra == rk.tree_paths[a]
            rb == rk.tree_paths[b]
        IN  (/\ rk.emb_results # <<>>
             /\ ra = rk.emb_results[1]
             /\ rb # ra
             /\ RkBaseScore(ra) = RkBaseScore(rb)
             /\ RkPos(rb) # 0)
            => (RkPos(ra) # 0 /\ RkPos(ra) < RkPos(rb))

\* C16: ordered by score descending and path ascending, cut at keep_top, and
\* the top embedding hit ranks before an otherwise equally scored candidate
\* that is a later hit or no hit.
C16_RankingOrder ==
    (rk.pc = "done" /\ RkPositive) => (RkSortedByScore /\ RkTopHitFirst)

\* C17: when every candidate scores 0 the shortlist is the first keep_top
\* entries of tree_paths in their original order, and it is empty only for an
\* empty tree.
C17_ZeroScoreFallback ==
    (rk.pc = "done" /\ ~RkPositive) =>
        /\ Len(rk.out) = (IF rk.keep_top < Len(rk.tree_paths)
                          THEN rk.keep_top ELSE Len(rk.tree_paths))
        /\ \A i \in 1..Len(rk.out) : rk.out[i] = rk.tree_paths[i]
        /\ (rk.out = <<>> <=> rk.tree_paths = <<>>)

\* C17 witness: no candidate scores, the tree is not in path order and the
\* shortlist starts with the first tree path, not with the smallest
C17_Witness ==
    /\ rk.pc = "done" /\ ~RkPositive
    /\ Len(rk.tree_paths) = 2
    /\ StrLess(rk.tree_paths[2], rk.tree_paths[1])
    /\ rk.out # <<>>
    /\ rk.out[1] = rk.tree_paths[1]

(***************************************************************************)
(* Properties of the embedding store and the registry (checked under       *)
(* SpecStore)                                                              *)
(***************************************************************************)
\* the store of the instance the last call was made on, before and after it
StoreBefore == Inst(last.before, last.key).store

StoreAfter == Inst(instances, last.key).store

\* the stored (path, vector) pairs
Pairs(st) == {<<st.paths[i], st.vecs[i]>> : i \in 1..Len(st.paths)}

\* C18: index(m) is a full rebuild: afterwards the stored paths are exactly
\* the keys of m, nothing of the previous store remains, and after index({})
\* top_k returns an empty list.
C18_IndexIsFullRebuild ==
    last.op = "index" =>
        /\ Len(StoreAfter.paths) = Len(last.arg)
        /\ Len(StoreAfter.vecs) = Len(last.arg)
        /\ \A i \in 1..Len(last.arg) :
               /\ StoreAfter.paths[i] = last.arg[i].k
               /\ StoreAfter.vecs[i] = embed(last.arg[i].v)
        /\ (last.arg = <<>> => top_k(StoreAfter, 1) = {<<>>})

\* the path list has no duplicates and is as long as the vector store
WellFormed(st) ==
    /\ Len(st.paths) = Len(st.vecs)
    /\ \A i, j \in 1..Len(st.paths) : st.paths[i] = st.paths[j] => i = j

\* C19: update(path, summary) replaces or inserts one entry: path is stored
\* exactly once afterwards, with the vector of the new summary, every other
\* stored path keeps its vector, and after any sequence of index and update
\* calls every store has a duplicate-free path list as long as its vector
\* store, position i of the one belonging to position i of the other.
C19_UpdateKeepsTheRest ==
    /\ \A n \in 1..Len(instances) : WellFormed(instances[n].v.store)
    /\ last.op = "update" =>
          /\ Cardinality({i \in 1..Len(StoreAfter.paths) :
                             StoreAfter.paths[i] = last.arg[1].k}) = 1
          /\ <<last.arg[1].k, embed(last.arg[1].v)>> \in Pairs(StoreAfter)
          /\ \A pr \in Pairs(StoreBefore) :
                 pr[1] # last.arg[1].k => pr \in Pairs(StoreAfter)
          /\ \A pr \in Pairs(StoreAfter) :
                 pr[1] # last.arg[1].k => pr \in Pairs(StoreBefore)
    /\ (last.op = "index" /\ last.arg # <<>>) =>
          Pairs(StoreAfter) = {<<last.arg[i].k, embed(last.arg[i].v)>> :
                                  i \in 1..Len(last.arg)}

\* C19 witness: an update of the first of two stored paths with a new summary
C19_Witness ==
    /\ last.op = "update"
    /\ Len(StoreBefore.paths) = 2
    /\ StoreBefore.paths[1] = last.arg[1].k
    /\ StoreBefore.vecs[1] # embed(last.arg[1].v)
    /\ StoreBefore.vecs[2] # embed(last.arg[1].v)
    /\ Len(StoreAfter.paths) = 2

\* C20: the registry holds one instance per absolute project root: a second
\* construction with another spelling of a registered root returns the
\* registered instance, no instance is dropped, replaced or initialised again,
\* and index/update on one root leave the stores of the other roots alone.
C20_OneInstancePerRoot ==
    /\ \A m, n \in 1..Len(instances) :
           (instances[m].k = instances[n].k \/ instances[m].v.id = instances[n].v.id
            \/ Directory(instances[m].v.base_dir) = Directory(instances[n].v.base_dir))
               => m = n
    /\ \A n \in 1..Len(last.before) :
           /\ DictHas(instances, last.before[n].k)
           /\ Inst(instances, last.before[n].k).id = last.before[n].v.id
           /\ Inst(instances, last.before[n].k).base_dir = last.before[n].v.base_dir
    /\ last.op = "new" =>
           /\ \A n \in 1..Len(last.before) :
                  /\ Inst(instances, last.before[n].k) = last.before[n].v
                  /\ Directory(last.before[n].v.base_dir) = Directory(last.root)
                         => last.inst = last.before[n].v.id
           /\ Directory(Inst(instances, last.key).base_dir) = Directory(last.root)
           /\ Inst(instances, last.key).id = last.inst
    /\ last.op \in {"index", "update"} =>
           \A n \in 1..Len(last.before) :
               last.before[n].k # last.key
                   => Inst(instances, last.before[n].k).store = last.before[n].v.store

\* C20 witness: with two roots registered, the first one holding entries, it is
\* constructed again under another spelling and the same instance comes back
C20_Witness ==
    /\ last.op = "new"
    /\ last.root # last.key
    /\ Len(last.before) = 2
    /\ DictHas(last.before, last.key)
    /\ Inst(last.before, last.key).store # EmptyStore
    /\ last.inst = Inst(last.before, last.key).id
    /\ Inst(instances, last.key).store = Inst(last.before, last.key).store

(***************************************************************************)
(* Resolution against the request's tree (checked under Spec)              *)
(***************************************************************************)
\* the model-returned string is a member of treePaths and the only member
\* with its normalised form
ExactMember(raw, tree_paths) ==
    /\ InList(raw, tree_paths)
    /\ \A j \in 1..Len(tree_paths) :
           lower(_norm(tree_paths[j])) = cand_norm(raw) => tree_paths[j] = raw

\* C26: a model-returned string that exactly equals a member of treePaths, no
\* other member matching it, appears in `selected`, whether or not the ranker
\* put that path on the shortlist.
C26_ResolvedAgainstFullTree ==
    pc = "returned" =>
        \A k \in 1..Len(reply.selected) :
            ExactMember(reply.selected[k], rTree)
                => InList(reply.selected[k], result.selected)

(***************************************************************************)
(* The semantic bonus (checked under SpecRank)                             *)
(***************************************************************************)
\* semantic_score of candidate rel in the current call, on the score scale
RkBonus(rel) == RkScore(rel) - RkBaseScore(rel)

\* rel is in the hit list the ranker got
RkIsHit(rel) == InList(rel, rk.emb_results)

\* C29: the semantic bonus is strictly positive for every hit, the last and
\* the only one included, strictly decreasing along the hit list, and a hit
\* outranks a non-hit with the same score otherwise.
C29_EveryHitHasBonus ==
    rk.pc = "done" =>
        \A a, b \in 1..Len(rk.tree_paths) :
            LET ra == rk.tree_paths[a]
                rb == rk.tree_paths[b]
            IN  /\ RkIsHit(ra) => RkBonus(ra) > 0
                /\ (RkIsHit(ra) /\ RkIsHit(rb)
                    /\ ListIndex(rk.emb_results, ra) < ListIndex(rk.emb_results, rb))
                       => RkBonus(ra) > RkBonus(rb)
                /\ (RkIsHit(ra) /\ ~RkIsHit(rb) /\ RkBaseScore(ra) = RkBaseScore(rb))
                       => /\ RkScore(ra) > RkScore(rb)
                          /\ RkPos(rb) # 0 => (RkPos(ra) # 0 /\ RkPos(ra) < RkPos(rb))

(***************************************************************************)
(* Properties of symbol extraction (checked under SpecCodemap)             *)
(***************************************************************************)
\* the entry of the file at position i of the batch in the returned dict
CmEntry(i) == DictGet(cm.result.val, cm.files[i].rel, _error_stub("<no entry>"))

\* a regular, readable file whose first bytes are more than 30 % non-text
CmBinary(f) == f.kind = "file" /\ f.readable /\ _is_binary_sample(f.bytes)

\* C22: a binary file always yields the Binary error summary, whatever its
\* extension, and the call never raises.
C22_BinaryYieldsBinary ==
    cm.pc = "done" =>
        /\ cm.result.exc = "none"
        /\ \A i \in 1..Len(cm.files) :
               CmBinary(cm.files[i]) => CmEntry(i).error = E_Binary

\* a file whose extraction fails: missing or no regular file, unsupported
\* extension, unreadable, undecodable, or the parser raises
CmFails(f) ==
    \/ f.kind # "file"
    \/ _lang_for(f.rel) = "none"
    \/ ~f.readable
    \/ utf8_decode(f.bytes).exc # "none"
    \/ (_lang_for(f.rel) # "txt" /\ f.walk.raises)

\* the entry a file gets when it is extracted in a call of its own
CmAlone(f) == extract_codemap(<<f>>, 1).val[1].v

\* C23: extract_codemap returns exactly one entry per requested path; a file
\* that fails gets an error entry, the call does not raise, and every file's
\* entry is the one it gets when extracted alone.
C23_OneEntryPerPath ==
    cm.pc = "done" =>
        /\ cm.result.exc = "none"
        /\ Len(cm.result.val) = Len(cm.files)
        /\ \A i \in 1..Len(cm.files) :
               \A entry \in {CmEntry(i)} :
                   /\ DictHas(cm.result.val, cm.files[i].rel)
                   /\ entry = CmAlone(cm.files[i])
                   /\ CmFails(cm.files[i]) => entry.error # "none"

\* C23 witness: a finished batch of two files in which the first one raised
\* inside _extract_one and the second one was extracted without error.
C23_Witness ==
    /\ cm.pc = "done"
    /\ Len(cm.files) = 2
    /\ _extract_one(cm.files[1]).exc # "none"
    /\ cm.result.exc = "none"
    /\ CmEntry(1).error \in {E_Decode, E_Parser}
    /\ CmEntry(2).error = "none"

NoDuplicates(l) == \A i, j \in 1..Len(l) : l[i] = l[j] => i = j

\* the identifiers (headings, for a text file) that the references of f are
\* taken from, with their repetitions
CmIdents(f) ==
    IF _lang_for(f.rel) = "txt" THEN find_heads(utf8_decode(f.bytes).val, 1)
    ELSE f.walk.refs_raw

\* the cap of the references of f
CmTopK(f) == IF _lang_for(f.rel) = "txt" THEN HeadsTop ELSE RefsTop

\* C24: in every successful summary classes and functions have no
\* duplicates, and references has no duplicates, at most top-K entries, and
\* is ordered by occurrence count descending, then name ascending.
C24_SummaryShape ==
    cm.pc = "done" /\ cm.result.exc = "none" =>
        \A i \in 1..Len(cm.files) :
            CmEntry(i).error = "none" =>
                /\ NoDuplicates(CmEntry(i).classes)
                /\ NoDuplicates(CmEntry(i).functions)
                /\ NoDuplicates(CmEntry(i).references)
                /\ Len(CmEntry(i).references) <= CmTopK(cm.files[i])
                /\ \A a, b \in 1..Len(CmEntry(i).references) :
                       a < b =>
                           \A ra \in {CmEntry(i).references[a]} :
                           \A rb \in {CmEntry(i).references[b]} :
                               \/ Occurrences(ra, CmIdents(cm.files[i]))
                                      > Occurrences(rb, CmIdents(cm.files[i]))
                               \/ /\ Occurrences(ra, CmIdents(cm.files[i]))
                                         = Occurrences(rb, CmIdents(cm.files[i]))
                                  /\ StrLess(ra, rb)

(***************************************************************************)
(* Properties of the file summaries (checked under SpecSummary)            *)
(***************************************************************************)
\* a file that is missing, unreadable, binary or no UTF-8
SvBad(f) ==
    \/ f.kind # "file"
    \/ ~f.readable
    \/ _is_binary_sample(f.bytes)
    \/ utf8_decode(f.bytes).exc # "none"

\* C25: a missing, unreadable, binary or undecodable file in treePaths never
\* makes the request fail: the request returns a summary for every path, and
\* the summary of such a file is the empty string.
C25_BadFileDegrades ==
    svc.pc = "idle" /\ svc.served > 0 =>
        /\ svc.last.exc = "none"
        /\ Len(svc.last.summaries) = Len(svc.last.tree)
        /\ \A i \in 1..Len(svc.last.tree) :
               SvBad(svc.disk[svc.last.tree[i]]) => svc.last.summaries[i] = <<>>

\* C28: a summary memoised while serving one request is not returned to a
\* later one: every summary a request is given is the one computed from the
\* content the file has when the request is served.
C28_SummaryOfCurrentContent ==
    [][svc'.served = svc.served + 1 /\ svc'.last.exc = "none" =>
          \A i \in 1..Len(svc'.last.tree) :
              file_summary_body(svc.disk[svc'.last.tree[i]]).ret
                  = Returned(svc'.last.summaries[i])]_vars

(***************************************************************************)
(* Properties of overlapping requests (checked under SpecReq)              *)
(***************************************************************************)
\* C21: the rebuild of an empty index is done once: no request starts
\* index() on an index that another request has already filled.
C21_RebuildOnlyWhenEmpty ==
    [][\A t \in Threads :
           cr.th[t].pc = "cold" /\ cr'.th[t].pc = "indexing"
               => cr.inst._paths = <<>>]_vars

\* C30: no thread that has the service object reads its path list before
\* the list exists.
C30_FullyInitialised ==
    cr.pc = "run" => \A t \in Threads : cr.th[t].pc # "AttributeError"

(***************************************************************************)
(* Properties of the endpoint without an API key (checked under            *)
(* SpecEndpoint)                                                           *)
(***************************************************************************)
\* C27: without an API key the process still comes up and serves, and a
\* valid selection request is answered with the configuration error (500),
\* not the upstream error (502).
C27_MissingKeyFailsTheRequest ==
    ep.pc # "off" /\ ep.api_key = "unset" =>
        /\ ep.pc # "import_failed"
        /\ (ep.pc = "responded" /\ _validate_payload(ep.payload).error = "none"
                => ep.error = "ConfigError" /\ ep.status = 500)

====
